---- MODULE Spec2Model ----
(***************************************************************************)
(* F1 sector analysis: the track-dominance engine in its two forms (the    *)
(* command-line engine of sector_analysis.py, and the served pipeline of    *)
(* preprocess.py followed by app.py), the dominance percentages, the        *)
(* extra-channel padding and the head-to-head comparison.                   *)
(*                                                                          *)
(* Numbers.  Interpolated values are exact rationals [num, den].  Values    *)
(* that the code rounds to one decimal are integers counting tenths.  Raw    *)
(* lap and sector times count fifths of a millisecond, so that rounding to  *)
(* three decimals never meets a tie; rounded times count milliseconds.      *)
(* Speed-trap readings likewise: raw ones count fifths of a thousandth of   *)
(* a km/h, rounded ones thousandths.                                        *)
(* int(count / total * 100) is computed as IEEE-754 doubles compute it.     *)
(***************************************************************************)
EXTENDS Integers, Sequences, FiniteSets, TLC

VARIABLES
    telemetry,      \* driver -> the raw telemetry trace of that driver's lap
    resolution,     \* number of mini sectors (num_mini_sectors / NUM_MINI_SECTORS)
    storedExtras,   \* extra channels found in the telemetry documents
    session_json,   \* data/<year>/<gp>/session.json, or None
    tel_dir,        \* data/<year>/<gp>/telemetry: file name -> document
    mode,           \* which program runs on the inputs
    request,        \* the request parameters (d1, d2, lap1, lap2)
    cli_out,        \* what get_track_dominance_data returned, or None
    api_calls,      \* the /api/track-dominance calls made, in call order
    dominance,      \* a dominance array handed to the percentage summary
    pct_out,        \* the summary of that array, or None
    laps,           \* session.laps: the lap table of the loaded session
    laps_json,      \* data/<year>/<gp>/laps.json, or None
    cmp_out,        \* what compare_two_drivers returned, or None
    compare_calls,  \* the /api/compare calls made, in call order
    analysis,       \* the tables of the full field analysis, or None
    listing,        \* what list_available_drivers returned, or None
    provider,       \* team -> the colour fastf1.plotting.get_team_color gives
    chart,          \* the colour pair a comparison emitted, or None
    year_dir,       \* data/<year>: None, or its entries by name
    gp,             \* the event name a session is stored or looked up under
    gp_dir,         \* what _find_gp_dir returned, or None
    pc,             \* where the running process_session stands
    runs,           \* how many runs of process_session were started
    load_calls,     \* the /api/load-session calls made, in call order
    schedule_json,  \* data/schedule.json: None, or year -> races
    sched_in,       \* the years of a process_schedule run and what each fetch gives
    sched_out       \* what process_schedule returned, or None

vars == <<telemetry, resolution, storedExtras, session_json, tel_dir, mode,
          request, cli_out, api_calls, dominance, pct_out, laps, laps_json,
          cmp_out, compare_calls, analysis, listing,
          provider, chart, year_dir, gp, gp_dir, pc, runs, load_calls,
          schedule_json, sched_in, sched_out>>

\* An optional value: None, or Some(v) holding v.
None == <<>>
Some(v) == <<v>>
Get(o) == o[1]

(***************************************************************************)
(* Bounds of the model.                                                     *)
(***************************************************************************)
MaxSamples == 3         \* samples in a raw telemetry trace
MaxResolution == 4      \* largest number of mini sectors
MaxPoints == 50         \* longest dominance array given to the summary
MaxChannel == 5         \* longest stored extra channel

(***************************************************************************)
(* Exact rationals.                                                         *)
(***************************************************************************)
Abs(a) == IF a < 0 THEN -a ELSE a

Min(a, b) == IF a <= b THEN a ELSE b

RECURSIVE GCD(_, _)
GCD(a, b) == IF b = 0 THEN a ELSE GCD(b, a % b)

Rat(n, d) ==
    LET g == GCD(Abs(n), Abs(d))
        s == IF d < 0 THEN -1 ELSE 1
    IN  [num |-> s * (n \div g), den |-> s * (d \div g)]

RInt(n) == [num |-> n, den |-> 1]
RAdd(a, b) == Rat(a.num * b.den + b.num * a.den, a.den * b.den)
RSub(a, b) == Rat(a.num * b.den - b.num * a.den, a.den * b.den)
RMul(a, b) == Rat(a.num * b.num, a.den * b.den)
RDiv(a, b) == Rat(a.num * b.den, a.den * b.num)
RLess(a, b) == a.num * b.den < b.num * a.den
RLeq(a, b) == a.num * b.den <= b.num * a.den

\* round(float(v), 1): the nearest tenth, a tie going to the even tenth.
Round1(r) ==
    LET n == 10 * r.num
        q == n \div r.den
        rem == n - q * r.den
    IN  IF 2 * rem < r.den THEN q
        ELSE IF 2 * rem > r.den THEN q + 1
        ELSE IF q % 2 = 0 THEN q ELSE q + 1

(***************************************************************************)
(* numpy.linspace(0, stop, num) and numpy.interp(x, xp, fp).                *)
(***************************************************************************)
linspace(stop, num) ==
    [i \in 1..num |-> IF num = 1 THEN RInt(0) ELSE Rat((i - 1) * stop, num - 1)]

\* The last index j with xp[j] <= x (numpy's binary search), for xp[1] <= x.
interp_index(x, xp) ==
    CHOOSE j \in 1..Len(xp) :
        /\ RLeq(RInt(xp[j]), x)
        /\ \A k \in (j + 1)..Len(xp) : ~RLeq(RInt(xp[k]), x)

interp1(x, xp, fp) ==
    IF RLess(x, RInt(xp[1])) THEN RInt(fp[1])
    ELSE IF RLess(RInt(xp[Len(xp)]), x) THEN RInt(fp[Len(fp)])
    ELSE LET j == interp_index(x, xp)
         IN  IF j = Len(xp) \/ RInt(xp[j]) = x THEN RInt(fp[j])
             ELSE RAdd(RMul(Rat(fp[j + 1] - fp[j], xp[j + 1] - xp[j]),
                            RSub(x, RInt(xp[j]))),
                       RInt(fp[j]))

interp(x, xp, fp) == [i \in 1..Len(x) |-> interp1(x[i], xp, fp)]

(***************************************************************************)
(* Telemetry.  A trace is a sequence of samples; add_distance() starts the  *)
(* Distance channel at 0 and the enumerated traces have it increasing.      *)
(* The car is on the track, so X and Y follow from the distance covered.    *)
(***************************************************************************)
Drivers == {"VER", "HAM"}
Dists == {0, 60, 120, 180}
Speeds == {100, 200}
ExtraFields == {"gear", "drs", "rpm", "throttle", "brake"}

TrackX(d) == 2 * d
TrackY(d) == 400 - 2 * d

DistSeqs(n) ==
    {d \in [1..n -> Dists] : /\ n > 0 => d[1] = 0
                             /\ \A i \in 1..(n - 1) : d[i] < d[i + 1]}

Traces ==
    UNION {{[i \in 1..n |-> [Distance |-> d[i], X |-> TrackX(d[i]),
                             Y |-> TrackY(d[i]), Speed |-> s[i]]] :
                d \in DistSeqs(n), s \in [1..n -> Speeds]} :
           n \in 0..MaxSamples}

Col(tel, f) == [i \in 1..Len(tel) |-> tel[i][f]]

RECURSIVE SeqMax(_)
SeqMax(s) ==
    IF Len(s) = 1 THEN s[1]
    ELSE LET m == SeqMax(Tail(s)) IN IF s[1] >= m THEN s[1] ELSE m

NoOutput == [status |-> "none"]

(***************************************************************************)
(* The lap table.  One row per lap: the driver, the team, the lap number,   *)
(* the accuracy flag, the lap time and three sector times (optional, raw    *)
(* units) and four speed-trap readings (optional).                          *)
(***************************************************************************)
Team == [d \in Drivers \cup {"LEC"} |->
            IF d = "VER" THEN "Red Bull Racing"
            ELSE IF d = "LEC" THEN "Ferrari" ELSE "Mercedes"]

Lap(d, n, accurate, lap_time, sectors, speeds) ==
    [Driver |-> d, Team |-> Team[d], LapNumber |-> n, IsAccurate |-> accurate,
     LapTime |-> lap_time,
     Sector1Time |-> sectors[1], Sector2Time |-> sectors[2], Sector3Time |-> sectors[3],
     SpeedI1 |-> speeds[1], SpeedI2 |-> speeds[2], SpeedFL |-> speeds[3],
     SpeedST |-> speeds[4]]

\* fastf1.plotting.get_team_color for the teams of the table
get_team_color == [t \in {Team[d] : d \in Drivers} |->
                      IF t = "Red Bull Racing" THEN "#3671C6" ELSE "#27F4D2"]

TEAM_COLORS_FALLBACK == [t \in {Team[d] : d \in Drivers} |->
                            IF t = "Red Bull Racing" THEN "#1E41FF" ELSE "#00D2BE"]

White == {"#FFFFFF", "#FFF", "#ffffff"}

\* TEAM_COLORS_FALLBACK.get(team, "#FFFFFF")
fallback_color(team) ==
    IF team \in DOMAIN TEAM_COLORS_FALLBACK THEN TEAM_COLORS_FALLBACK[team] ELSE "#FFFFFF"

\* preprocess: the provider's colour, a white one replaced from the table
resolve_color(color, team) == IF color \in White THEN fallback_color(team) ELSE color

\* The lap each driver's telemetry belongs to (the driver's fastest lap).
BestLapNum == [d \in Drivers |-> IF d = "VER" THEN 5 ELSE 7]

\* str.upper() on the driver codes a request may carry
upper(s) == IF s = "ver" THEN "VER" ELSE IF s = "ham" THEN "HAM" ELSE s

Rows(ls, d) == SelectSeq(ls, LAMBDA r : r.Driver = d)

SetMin(S) == CHOOSE m \in S : \A v \in S : m <= v

\* Series.min() skips the absent values: None when every value is absent
min_lap_time(rows) ==
    LET present == {Get(rows[i].LapTime) : i \in {k \in 1..Len(rows) : rows[k].LapTime # None}}
    IN  IF present = {} THEN None ELSE Some(SetMin(present))

\* Series.idxmin(): the first row holding the minimum, None when there is none
idxmin(rows) ==
    IF min_lap_time(rows) = None THEN None
    ELSE Some(SetMin({i \in 1..Len(rows) : rows[i].LapTime = min_lap_time(rows)}))

\* round(float(v), 3): fifths of a thousandth to thousandths, None for NaN
safe_float(v) == IF v = None THEN None ELSE Some((Get(v) + 2) \div 5)

(***************************************************************************)
(* The dominance classification of one grid point.                          *)
(***************************************************************************)
ClassifyMutGeq(a, b) == IF RLeq(b, a) THEN 1 ELSE -1

Classify(a, b) == IF RLess(b, a) THEN 1 ELSE IF RLess(a, b) THEN -1 ELSE 0

(***************************************************************************)
(* sector_analysis.get_track_dominance_data: the command-line engine.       *)
(***************************************************************************)
pick_lap(laps_all, driver, lap_number) ==
    LET drv_laps == Rows(laps_all, driver)
        lap == SelectSeq(drv_laps, LAMBDA r : Some(r.LapNumber) = lap_number)
    IN  IF lap_number # None
        THEN IF lap = <<>> THEN None ELSE Some(lap[1].LapNumber)
        ELSE IF idxmin(drv_laps) = None THEN None
        ELSE Some(drv_laps[Get(idxmin(drv_laps))].LapNumber)

get_track_dominance_data(laps_all, tels, driver1, driver2, lap1, lap2, num_mini_sectors) ==
    LET d1 == upper(driver1)
        d2 == upper(driver2)
        lap_row1 == pick_lap(laps_all, d1, lap1)
        lap_row2 == pick_lap(laps_all, d2, lap2)
    IN  IF lap_row1 = None \/ lap_row2 = None
        THEN [status |-> "error", error |-> "ValueError"]
        ELSE
        LET tel1 == tels[d1]
            tel2 == tels[d2]
        IN  \* an empty trace has no sample points to interpolate against
            IF Len(tel1) = 0 \/ Len(tel2) = 0
            THEN [status |-> "error", error |-> "ValueError"]
            ELSE
            LET total_dist == Min(SeqMax(Col(tel1, "Distance")),
                                  SeqMax(Col(tel2, "Distance")))
                ref_dist == linspace(total_dist, num_mini_sectors)
                x1 == interp(ref_dist, Col(tel1, "Distance"), Col(tel1, "X"))
                y1 == interp(ref_dist, Col(tel1, "Distance"), Col(tel1, "Y"))
                s1 == interp(ref_dist, Col(tel1, "Distance"), Col(tel1, "Speed"))
                x2 == interp(ref_dist, Col(tel2, "Distance"), Col(tel2, "X"))
                y2 == interp(ref_dist, Col(tel2, "Distance"), Col(tel2, "Y"))
                s2 == interp(ref_dist, Col(tel2, "Distance"), Col(tel2, "Speed"))
            IN  [status |-> "ok",
                 x |-> [i \in 1..Len(x1) |-> RDiv(RAdd(x1[i], x2[i]), RInt(2))],
                 y |-> [i \in 1..Len(y1) |-> RDiv(RAdd(y1[i], y2[i]), RInt(2))],
                 speed1 |-> s1,
                 speed2 |-> s2,
                 dominance |-> [i \in 1..Len(s1) |-> Classify(s1[i], s2[i])],
                 driver1 |-> d1,
                 driver2 |-> d2,
                 lap1_num |-> Get(lap_row1),
                 lap2_num |-> Get(lap_row2),
                 \* not returned: the distance each index was sampled at
                 dist1 |-> ref_dist,
                 dist2 |-> ref_dist]

(***************************************************************************)
(* preprocess.process_session.  The telemetry part writes one document per  *)
(* driver's best lap, resampled on that lap's own grid.  A file name        *)
(* "<driver>_<lap>.json" is the pair <<driver, lap>>.                       *)
(***************************************************************************)
MIN_DISTANCE == 100

accurate_laps_unfiltered(ls) == ls

accurate_laps(ls) == SelectSeq(ls, LAMBDA r : r.IsAccurate)

\* Series.unique(): the values in order of first appearance
RECURSIVE unique(_)
unique(s) ==
    IF s = <<>> THEN <<>>
    ELSE LET rest == unique(SubSeq(s, 1, Len(s) - 1))
             last == s[Len(s)]
         IN  IF \E i \in 1..Len(rest) : rest[i] = last THEN rest ELSE Append(rest, last)

\* sorted(): a stable sort of s, keys[i] being the sort key of s[i]
sorted(s, keys) ==
    LET rank(i) == Cardinality({j \in 1..Len(s) :
                        keys[j] < keys[i] \/ (keys[j] = keys[i] /\ j <= i)})
    IN  [p \in 1..Len(s) |-> s[CHOOSE i \in 1..Len(s) : rank(i) = p]]

\* d["bestLap"] or 999: an absent best lap and a best lap of 0 both sort as 999 s
best_lap_key(d) == IF d.bestLap = None \/ Get(d.bestLap) = 0 THEN 999000 ELSE Get(d.bestLap)

driver_info(accurate, drv) ==
    LET drv_laps == Rows(accurate, drv)
    IN  [driver |-> drv,
         team |-> drv_laps[1].Team,
         color |-> resolve_color(get_team_color[drv_laps[1].Team], drv_laps[1].Team),
         totalLaps |-> Len(drv_laps),
         bestLap |-> safe_float(min_lap_time(drv_laps)),
         bestLapNum |-> drv_laps[Get(idxmin(drv_laps))].LapNumber,
         lapNumbers |-> sorted([i \in 1..Len(drv_laps) |-> drv_laps[i].LapNumber],
                               [i \in 1..Len(drv_laps) |-> drv_laps[i].LapNumber])]

session_drivers(accurate) ==
    LET order == unique([i \in 1..Len(accurate) |-> accurate[i].Driver])
        drivers == [i \in 1..Len(order) |-> driver_info(accurate, order[i])]
    IN  sorted(drivers, [i \in 1..Len(drivers) |-> best_lap_key(drivers[i])])

laps_list(accurate) ==
    [i \in 1..Len(accurate) |->
        [driver |-> accurate[i].Driver,
         team |-> accurate[i].Team,
         lapNumber |-> accurate[i].LapNumber,
         lapTime |-> safe_float(accurate[i].LapTime),
         sector1 |-> safe_float(accurate[i].Sector1Time),
         sector2 |-> safe_float(accurate[i].Sector2Time),
         sector3 |-> safe_float(accurate[i].Sector3Time),
         speedI1 |-> safe_float(accurate[i].SpeedI1),
         speedI2 |-> safe_float(accurate[i].SpeedI2),
         speedFL |-> safe_float(accurate[i].SpeedFL),
         speedST |-> safe_float(accurate[i].SpeedST)]]

resample(drv, best_num, tel, num) ==
    LET total_dist == SeqMax(Col(tel, "Distance"))
        ref_dist == linspace(total_dist, num)
        rounded(v) == [i \in 1..Len(v) |-> Round1(v[i])]
    IN  [driver |-> drv,
         lapNumber |-> best_num,
         distance |-> rounded(ref_dist),
         x |-> rounded(interp(ref_dist, Col(tel, "Distance"), Col(tel, "X"))),
         y |-> rounded(interp(ref_dist, Col(tel, "Distance"), Col(tel, "Y"))),
         speed |-> rounded(interp(ref_dist, Col(tel, "Distance"), Col(tel, "Speed")))]

\* The documents the telemetry loop writes, given the files already there.
save_telemetry(files, drivers, tels, num) ==
    LET written == {i \in 1..Len(drivers) :
                      /\ <<drivers[i].driver, drivers[i].bestLapNum>> \notin DOMAIN files
                      /\ Len(tels[drivers[i].driver]) > 0
                      /\ SeqMax(Col(tels[drivers[i].driver], "Distance")) >= MIN_DISTANCE}
        names == {<<drivers[i].driver, drivers[i].bestLapNum>> : i \in written}
    IN  [f \in DOMAIN files \cup names |->
            IF f \in DOMAIN files THEN files[f]
            ELSE resample(f[1], f[2], tels[f[1]], num)]

\* The files of the session directory after process_session has run on
\* store = [session_json, laps_json, tel_dir].  Nothing is written when the
\* session is already processed, when no lap is accurate, or when a driver
\* has no lap time at all (idxmin finds no row and the function raises).
process_session(store, ls, tels, num) ==
    LET accurate == accurate_laps(ls)
        order == unique([i \in 1..Len(accurate) |-> accurate[i].Driver])
    IN  IF store.session_json # None /\ store.laps_json # None THEN store
        ELSE IF accurate = <<>> THEN store
        ELSE IF \E i \in 1..Len(order) : idxmin(Rows(accurate, order[i])) = None THEN store
        ELSE [session_json |-> Some([drivers |-> session_drivers(accurate)]),
              laps_json |-> Some(laps_list(accurate)),
              tel_dir |-> save_telemetry(store.tel_dir, session_drivers(accurate), tels, num)]

(***************************************************************************)
(* int(count / total * 100) on IEEE-754 doubles.  q = count / total is      *)
(* rounded to 53 bits, q * 100 is rounded again, int() truncates.  The      *)
(* result is floor(100 * count / total) unless that quotient is a whole     *)
(* number W and the twice-rounded product falls below W; whether it does    *)
(* is decided exactly from the remainder rho of the first division.         *)
(***************************************************************************)
RECURSIVE Pow2(_)
Pow2(n) == IF n = 0 THEN 1 ELSE 2 * Pow2(n - 1)

\* the least e with total <= count * 2^e: count / total lies in [2^-e, 2^(1-e))
RECURSIVE BinaryExponent(_, _, _)
BinaryExponent(count, total, e) ==
    IF total <= count * Pow2(e) THEN e ELSE BinaryExponent(count, total, e + 1)

\* floor(log2(w)) for w >= 1
RECURSIVE FloorLog2(_)
FloorLog2(w) == IF w < 2 THEN 0 ELSE 1 + FloorLog2(w \div 2)

\* (r * 2^k) mod m
RECURSIVE ShiftMod(_, _, _)
ShiftMod(r, k, m) == IF k = 0 THEN r % m ELSE ShiftMod((2 * r) % m, k - 1, m)

\* count * 2^(52+e) - M * total, M the 53-bit mantissa of fl(count / total)
DivisionRemainder(count, total, e) ==
    LET r2 == ShiftMod(count, 52 + e, 2 * total)
        r == r2 % total
        odd == r2 >= total
    IN  IF 2 * r < total THEN r
        ELSE IF 2 * r > total THEN r - total
        ELSE IF odd THEN r - total ELSE r

int_pct_ceil(count, total) ==
    IF total > 0 THEN (100 * count + total - 1) \div total ELSE 0

int_pct(count, total) ==
    IF total = 0 \/ count = 0 THEN 0
    ELSE IF count = total THEN 100
    ELSE LET W == (100 * count) \div total
         IN  IF W * total # 100 * count THEN W
             ELSE LET e == BinaryExponent(count, total, 1)
                      j == FloorLog2(W)
                      rho == DivisionRemainder(count, total, e)
                      \* half the gap to the double below W, times total * 2^(52+e)
                      half == IF W = Pow2(j) THEN total * Pow2(e + j - 1)
                              ELSE total * Pow2(e + j)
                  IN  IF 2 * 100 * rho > half THEN W - 1 ELSE W

Count(seq, v) == Cardinality({i \in 1..Len(seq) : seq[i] = v})

\* app.py: d1_count, d2_count, total, d1_pct, d2_pct
summary(dom) ==
    [d1_pct |-> int_pct(Count(dom, 1), Len(dom)),
     d2_pct |-> int_pct(Count(dom, -1), Len(dom))]

(***************************************************************************)
(* app.api_track_dominance._pad                                             *)
(***************************************************************************)
Zeros(n) == [i \in 1..n |-> 0]

pad_no_truncate(arr, length) ==
    IF Len(arr) >= length THEN arr ELSE arr \o Zeros(length - Len(arr))

pad_left(arr, length) ==
    IF Len(arr) = 0 THEN Zeros(length)
    ELSE IF Len(arr) >= length THEN SubSeq(arr, 1, length)
    ELSE Zeros(length - Len(arr)) \o arr

pad(arr, length) ==
    IF Len(arr) = 0 THEN Zeros(length)
    ELSE IF Len(arr) >= length THEN SubSeq(arr, 1, length)
    ELSE arr \o Zeros(length - Len(arr))

(***************************************************************************)
(* app.api_track_dominance.  tel_dir.glob() yields the matching files in    *)
(* arbitrary order: `globbed` is the file it yields first (None when        *)
(* nothing matches), chosen by the caller of the operator.                  *)
(***************************************************************************)
glob(files, driver) == {f \in DOMAIN files : driver = "*" \/ f[1] = driver}

GlobFirst(files, driver) ==
    IF glob(files, driver) = {} THEN {None} ELSE {Some(f) : f \in glob(files, driver)}

find_telemetry_fallback(session_data, files, driver, lap_num, globbed) ==
    IF lap_num # None /\ <<driver, Get(lap_num)>> \in DOMAIN files
    THEN Some(files[<<driver, Get(lap_num)>>])
    ELSE IF globbed = None THEN None ELSE Some(files[Get(globbed)])

find_telemetry(session_data, files, driver, lap_num, globbed) ==
    IF lap_num # None
    THEN IF <<driver, Get(lap_num)>> \in DOMAIN files
         THEN Some(files[<<driver, Get(lap_num)>>]) ELSE None
    ELSE LET listed == {i \in 1..Len(session_data.drivers) :
                            session_data.drivers[i].driver = driver}
             d == session_data.drivers[CHOOSE i \in listed : \A k \in listed : i <= k]
         IN  IF /\ listed # {}
                /\ d.bestLapNum # 0
                /\ <<driver, d.bestLapNum>> \in DOMAIN files
             THEN Some(files[<<driver, d.bestLapNum>>])
             ELSE IF globbed = None THEN None ELSE Some(files[Get(globbed)])

get_color(drivers_list, driver_abbr) ==
    LET listed == {i \in 1..Len(drivers_list) : drivers_list[i].driver = driver_abbr}
        d == drivers_list[SetMin(listed)]
    IN  IF listed = {} THEN "#FFFFFF"
        ELSE IF d.color \in White THEN fallback_color(d.team)
        ELSE d.color

get_color_pair(drivers_list, d1, d2) ==
    IF get_color(drivers_list, d1) = get_color(drivers_list, d2)
    THEN <<"#1E41FF", "#E10600">>
    ELSE <<get_color(drivers_list, d1), get_color(drivers_list, d2)>>

team_of(session_data, driver) ==
    LET listed == {i \in 1..Len(session_data.drivers) :
                        session_data.drivers[i].driver = driver}
    IN  IF listed = {} THEN ""
        ELSE session_data.drivers[CHOOSE i \in listed : \A k \in listed : i <= k].team

api_track_dominance(session_data, files, extras, req, globbed1, globbed2) ==
    LET d1 == upper(req.d1)
        d2 == upper(req.d2)
    IN
    IF d1 = "" \/ d2 = ""
    THEN [status |-> 400, error |-> "Provide both d1 and d2 query parameters"]
    ELSE IF session_data = None
    THEN [status |-> 404, error |-> "No data"]
    ELSE
    LET found1 == find_telemetry(Get(session_data), files, d1, req.lap1, globbed1)
        found2 == find_telemetry(Get(session_data), files, d2, req.lap2, globbed2)
    IN  IF found1 = None THEN [status |-> 404, error |-> "No telemetry data for d1"]
        ELSE IF found2 = None THEN [status |-> 404, error |-> "No telemetry data for d2"]
        ELSE
        LET tel1 == Get(found1)
            tel2 == Get(found2)
            s1 == tel1.speed
            s2 == tel2.speed
            n == Min(Min(Len(s1), Len(s2)), Min(Len(tel1.x), Len(tel2.x)))
        IN  IF n > Len(tel1.y) \/ n > Len(tel2.y)
            THEN [status |-> 500, error |-> "IndexError"]
            ELSE
            LET dom == [i \in 1..n |-> Classify(RInt(s1[i]), RInt(s2[i]))]
            IN  [status |-> 200,
                 x |-> [i \in 1..n |-> Round1(Rat(tel1.x[i] + tel2.x[i], 20))],
                 y |-> [i \in 1..n |-> Round1(Rat(tel1.y[i] + tel2.y[i], 20))],
                 dominance |-> dom,
                 speed1 |-> SubSeq(s1, 1, n),
                 speed2 |-> SubSeq(s2, 1, n),
                 extra1 |-> [f \in ExtraFields |-> pad(extras[tel1.driver][f], n)],
                 extra2 |-> [f \in ExtraFields |-> pad(extras[tel2.driver][f], n)],
                 driver1 |-> d1,
                 driver2 |-> d2,
                 team1 |-> team_of(Get(session_data), d1),
                 team2 |-> team_of(Get(session_data), d2),
                 lap1_num |-> tel1.lapNumber,
                 lap2_num |-> tel2.lapNumber,
                 color1 |-> get_color_pair(Get(session_data).drivers, d1, d2)[1],
                 color2 |-> get_color_pair(Get(session_data).drivers, d1, d2)[2],
                 d1_pct |-> summary(dom).d1_pct,
                 d2_pct |-> summary(dom).d2_pct,
                 \* not returned: the distance each index was sampled at
                 dist1 |-> SubSeq(tel1.distance, 1, n),
                 dist2 |-> SubSeq(tel2.distance, 1, n)]

(***************************************************************************)
(* sector_analysis.compare_two_drivers, on the cleaned lap table that       *)
(* get_sector_data returns.  An absent time or speed is NaN: every          *)
(* difference with it is NaN and every comparison with it is false.         *)
(***************************************************************************)
get_sector_data(ls) == accurate_laps(ls)

get_driver_lap(ls, driver, lap_number) ==
    LET drv_laps == Rows(ls, upper(driver))
        lap == SelectSeq(drv_laps, LAMBDA r : Some(r.LapNumber) = lap_number)
        numbers == [i \in 1..Len(drv_laps) |-> drv_laps[i].LapNumber]
    IN  IF drv_laps = <<>>
        THEN \* f"Driver '{driver}' not found in session data."
             [status |-> "error", error |-> "ValueError: driver not found", driver |-> driver]
        ELSE IF lap_number # None
        THEN IF lap = <<>>
             THEN \* f"Lap {lap_number} not found for {driver}. Available accurate laps: {available}"
                  [status |-> "error", error |-> "ValueError: lap not found",
                   driver |-> driver, lap |-> Get(lap_number),
                   available |-> sorted(numbers, numbers)]
             ELSE [status |-> "ok", row |-> lap[1]]
        ELSE IF idxmin(drv_laps) = None THEN [status |-> "error", error |-> "KeyError"]
        ELSE [status |-> "ok", row |-> drv_laps[Get(idxmin(drv_laps))]]

\* t1 - t2 on floats that may be NaN
nan_sub(t1, t2) == IF t1 = None \/ t2 = None THEN None ELSE Some(Get(t1) - Get(t2))

\* d1 if delta < 0 else (d2 if delta > 0 else "TIE")
lower_wins_flipped(delta, d1, d2) ==
    IF delta # None /\ Get(delta) > 0 THEN d1
    ELSE IF delta # None /\ Get(delta) < 0 THEN d2 ELSE "TIE"

lower_wins(delta, d1, d2) ==
    IF delta # None /\ Get(delta) < 0 THEN d1
    ELSE IF delta # None /\ Get(delta) > 0 THEN d2 ELSE "TIE"

\* d1 if delta > 0 else (d2 if delta < 0 else "TIE")
higher_wins(delta, d1, d2) ==
    IF delta # None /\ Get(delta) > 0 THEN d1
    ELSE IF delta # None /\ Get(delta) < 0 THEN d2 ELSE "TIE"

compare_two_drivers(ls, driver1, driver2, lap1, lap2) ==
    LET d1 == upper(driver1)
        d2 == upper(driver2)
        got1 == get_driver_lap(ls, d1, lap1)
        got2 == get_driver_lap(ls, d2, lap2)
    IN  IF got1.status = "error" THEN got1
        ELSE IF got2.status = "error" THEN got2
        ELSE
        LET row1 == got1.row
            row2 == got2.row
            sector(name, t1, t2) ==
                [sector |-> name, time1 |-> t1, time2 |-> t2, delta |-> nan_sub(t1, t2),
                 faster |-> lower_wins(nan_sub(t1, t2), d1, d2)]
            trap(name, s1, s2) ==
                [trap |-> name, speed1 |-> s1, speed2 |-> s2, delta |-> nan_sub(s1, s2),
                 faster |-> higher_wins(nan_sub(s1, s2), d1, d2)]
            ot1 == row1.LapTime
            ot2 == row2.LapTime
        IN  [status |-> "ok",
             driver1 |-> d1,
             driver2 |-> d2,
             team1 |-> row1.Team,
             team2 |-> row2.Team,
             lap1_num |-> row1.LapNumber,
             lap2_num |-> row2.LapNumber,
             sectors |-> <<sector("Sector 1", row1.Sector1Time, row2.Sector1Time),
                           sector("Sector 2", row1.Sector2Time, row2.Sector2Time),
                           sector("Sector 3", row1.Sector3Time, row2.Sector3Time)>>,
             speed_traps |-> <<trap("Intermediate 1", row1.SpeedI1, row2.SpeedI1),
                               trap("Intermediate 2", row1.SpeedI2, row2.SpeedI2),
                               trap("Finish Line", row1.SpeedFL, row2.SpeedFL),
                               trap("Speed Trap", row1.SpeedST, row2.SpeedST)>>,
             overall_time1 |-> ot1,
             overall_time2 |-> ot2,
             overall_delta |-> nan_sub(ot1, ot2),
             \* ot1 < ot2 has the sign of ot1 - ot2, and is false on NaN
             overall_faster |-> lower_wins(nan_sub(ot1, ot2), d1, d2)]

(***************************************************************************)
(* app.api_compare, on the stored laps.json and session.json.               *)
(***************************************************************************)
\* min(laps, key=lambda l: l["lapTime"] or 999): the first lap with the least
\* key, an absent lap time and a lap time of 0 both counting as 999 s
lap_time_key(l) == IF l.lapTime = None \/ Get(l.lapTime) = 0 THEN 999000 ELSE Get(l.lapTime)

min_lap(ls) ==
    ls[SetMin({i \in 1..Len(ls) : \A k \in 1..Len(ls) : lap_time_key(ls[i]) <= lap_time_key(ls[k])})]

\* round(s1 - s2, 1) on thousandths: the nearest tenth, kept in thousandths
\* (no two enumerated readings differ by an odd number of twentieths)
round_tenths(v) == IF v >= 0 THEN 100 * ((v + 50) \div 100) ELSE -100 * ((50 - v) \div 100)

api_compare(laps_data, session_data, req) ==
    LET d1 == upper(req.d1)
        d2 == upper(req.d2)
    IN  IF d1 = "" \/ d2 = ""
        THEN [status |-> 400, error |-> "Provide both d1 and d2 query parameters"]
        ELSE IF laps_data = None \/ session_data = None
        THEN [status |-> 404, error |-> "Data not found"]
        ELSE
        LET d1_laps == SelectSeq(Get(laps_data), LAMBDA l : l.driver = d1)
            d2_laps == SelectSeq(Get(laps_data), LAMBDA l : l.driver = d2)
            lap1_rows == SelectSeq(d1_laps, LAMBDA l : Some(l.lapNumber) = req.lap1)
            lap2_rows == SelectSeq(d2_laps, LAMBDA l : Some(l.lapNumber) = req.lap2)
        IN  \* f"Driver {d1} not found"
            IF d1_laps = <<>> THEN [status |-> 400, error |-> "Driver not found", driver |-> d1]
            ELSE IF d2_laps = <<>>
            THEN [status |-> 400, error |-> "Driver not found", driver |-> d2]
            \* f"Lap {lap1} not found for {d1}"
            ELSE IF req.lap1 # None /\ lap1_rows = <<>>
            THEN [status |-> 400, error |-> "Lap not found",
                  lap |-> Get(req.lap1), driver |-> d1]
            ELSE IF req.lap2 # None /\ lap2_rows = <<>>
            THEN [status |-> 400, error |-> "Lap not found",
                  lap |-> Get(req.lap2), driver |-> d2]
            ELSE
            LET row1 == IF req.lap1 # None THEN lap1_rows[1] ELSE min_lap(d1_laps)
                row2 == IF req.lap2 # None THEN lap2_rows[1] ELSE min_lap(d2_laps)
                sector(name, t1, t2) ==
                    IF t1 # None /\ t2 # None
                    \* round(t1 - t2, 3) of two times in whole milliseconds
                    THEN [sector |-> name, time1 |-> t1, time2 |-> t2,
                          delta |-> nan_sub(t1, t2),
                          faster |-> lower_wins(nan_sub(t1, t2), d1, d2)]
                    ELSE [sector |-> name, time1 |-> t1, time2 |-> t2,
                          delta |-> None, faster |-> "N/A"]
                trap(name, s1, s2) ==
                    IF s1 # None /\ s2 # None
                    THEN [trap |-> name, speed1 |-> s1, speed2 |-> s2,
                          delta |-> Some(round_tenths(Get(s1) - Get(s2))),
                          faster |-> higher_wins(Some(round_tenths(Get(s1) - Get(s2))), d1, d2)]
                    ELSE [trap |-> name, speed1 |-> s1, speed2 |-> s2,
                          delta |-> None, faster |-> "N/A"]
                ot1 == row1.lapTime
                ot2 == row2.lapTime
            IN  [status |-> 200,
                 driver1 |-> d1,
                 driver2 |-> d2,
                 team1 |-> row1.team,
                 team2 |-> row2.team,
                 lap1_num |-> row1.lapNumber,
                 lap2_num |-> row2.lapNumber,
                 sectors |-> <<sector("Sector 1", row1.sector1, row2.sector1),
                               sector("Sector 2", row1.sector2, row2.sector2),
                               sector("Sector 3", row1.sector3, row2.sector3)>>,
                 speed_traps |-> <<trap("Intermediate 1", row1.speedI1, row2.speedI1),
                                   trap("Intermediate 2", row1.speedI2, row2.speedI2),
                                   trap("Finish Line", row1.speedFL, row2.speedFL),
                                   trap("Speed Trap", row1.speedST, row2.speedST)>>,
                 overall_time1 |-> ot1,
                 overall_time2 |-> ot2,
                 overall_delta |-> nan_sub(ot1, ot2),
                 overall_faster |-> IF ot1 # None /\ ot2 # None
                                    THEN lower_wins(nan_sub(ot1, ot2), d1, d2)
                                    ELSE "N/A",
                 color1 |-> get_color_pair(Get(session_data).drivers, d1, d2)[1],
                 color2 |-> get_color_pair(Get(session_data).drivers, d1, d2)[2]]

(***************************************************************************)
(* Inputs.                                                                  *)
(***************************************************************************)
\* Extra channels of the telemetry documents.  process_session writes none;
\* the serving layer pads whatever the documents hold.
ExtraChannel(len) == [i \in 1..len |-> i]

NoExtras == [d \in Drivers |-> [f \in ExtraFields |-> <<>>]]

MixedExtras ==
    [d \in Drivers |->
        [f \in ExtraFields |->
            IF f = "gear" THEN ExtraChannel(1)
            ELSE IF f = "throttle" THEN ExtraChannel(3)
            ELSE IF f \in {"drs", "brake"} THEN ExtraChannel(MaxChannel)
            ELSE <<>>]]

\* Dominance arrays: a run of +1, a run of -1, a run of ties.
DominanceArrays ==
    {[i \in 1..n |-> IF i <= a THEN 1 ELSE IF i <= a + b THEN -1 ELSE 0] :
        <<n, a, b>> \in {t \in (0..MaxPoints) \X (0..MaxPoints) \X (0..MaxPoints) :
                            t[2] + t[3] <= t[1]}}

BestLapRequest == [d1 |-> "VER", d2 |-> "HAM", lap1 |-> None, lap2 |-> None]

\* Raw times and speed-trap readings.
Sectors == <<None, Some(150000), Some(150001), Some(150500)>>
LapTimes == <<None, Some(450000), Some(450001), Some(450500)>>
Readings == <<None, Some(1425000), Some(1425200), Some(1500000)>>

\* The i-th value of vals, counting cyclically from 0
Cyclic(vals, i) == vals[(i % Len(vals)) + 1]

\* A lap whose three sectors and four speed traps run through the raw values
\* from position i on, with the j-th lap time.
LapOf(d, n, i, j) ==
    Lap(d, n, TRUE, Cyclic(LapTimes, j),
        [k \in 1..3 |-> Cyclic(Sectors, i + k)],
        [k \in 1..4 |-> Cyclic(Readings, i + k)])

\* The lap table of the dominance runs: one timed lap per driver.
DomLaps == <<LapOf("VER", BestLapNum["VER"], 0, 1), LapOf("HAM", BestLapNum["HAM"], 0, 3)>>

\* A second lap of VER, its sectors and speed traps running through the raw
\* values backwards.
SecondLap ==
    Lap("VER", 6, TRUE, Cyclic(LapTimes, 2),
        [k \in 1..3 |-> Cyclic(Sectors, 4 - k)],
        [k \in 1..4 |-> Cyclic(Readings, 4 - k)])

\* The lap tables of the comparison runs: a lap of each driver drawn from
\* LapOf, the second lap of VER, and a lap of HAM that is not accurate.
CompareLaps ==
    {<<LapOf("VER", 5, i1, j1), LapOf("HAM", 7, i2, j2), SecondLap,
       Lap("HAM", 8, FALSE, Some(400000), [k \in 1..3 |-> Some(100000)],
           [k \in 1..4 |-> Some(1600000)])>> :
        i1 \in 0..3, j1 \in 0..3, i2 \in 0..3, j2 \in 0..3}

CompareRequests ==
    {[d1 |-> a, d2 |-> b, lap1 |-> l1, lap2 |-> l2] :
        a \in Drivers, b \in Drivers \cup {"ham"},
        l1 \in {None, Some(5), Some(6)}, l2 \in {None, Some(6), Some(7)}}

IdleDominance ==
    /\ telemetry = [d \in Drivers |-> <<>>]
    /\ resolution = 2
    /\ storedExtras = NoExtras
    /\ session_json = None
    /\ laps_json = None
    /\ tel_dir = <<>>
    /\ cli_out = NoOutput
    /\ api_calls = <<>>

IdlePct == dominance = <<>> /\ pct_out = NoOutput

IdleCompare == cmp_out = NoOutput /\ compare_calls = <<>>

IdleAnalysis == analysis = NoOutput

IdleListing == listing = NoOutput

\* the state of the operations that the runs of one specification leave alone
Base == <<telemetry, resolution, storedExtras, session_json, tel_dir, mode, request,
          cli_out, api_calls, dominance, pct_out, laps, laps_json, cmp_out,
          compare_calls, analysis>>

ColorVars == <<provider, chart>>

IdleColor == provider = <<>> /\ chart = NoOutput

LookupVars == <<year_dir, gp, gp_dir>>

IdleLookup == year_dir = <<>> /\ gp = <<>> /\ gp_dir = NoOutput

RunVars == <<pc, runs, load_calls>>

IdleRuns == pc = "idle" /\ runs = 0 /\ load_calls = <<>>

ScheduleVars == <<schedule_json, sched_in, sched_out>>

IdleSchedule == schedule_json = <<>> /\ sched_in = <<>> /\ sched_out = NoOutput

Aux == <<listing, ColorVars, LookupVars, RunVars, ScheduleVars>>

IdleAux == IdleListing /\ IdleColor /\ IdleLookup /\ IdleRuns /\ IdleSchedule

(***************************************************************************)
(* Track dominance: the command-line engine and the served pipeline.        *)
(***************************************************************************)
InitDom ==
    /\ telemetry \in [Drivers -> Traces]
    /\ resolution \in {2, MaxResolution}
    /\ \E run \in {<<"cli", NoExtras>>, <<"served", NoExtras>>, <<"served", MixedExtras>>} :
          mode = run[1] /\ storedExtras = run[2]
    /\ laps = DomLaps
    /\ session_json = None
    /\ laps_json = None
    /\ tel_dir = <<>>
    /\ request = BestLapRequest
    /\ cli_out = NoOutput
    /\ api_calls = <<>>
    /\ IdlePct /\ IdleCompare /\ IdleAnalysis /\ IdleAux

DomFrame == <<telemetry, resolution, storedExtras, mode, request, laps>>
Store == <<session_json, laps_json, tel_dir>>
OtherThanDom == <<dominance, pct_out, cmp_out, compare_calls, analysis, Aux>>

CliDominance ==
    /\ mode = "cli"
    /\ cli_out = NoOutput
    /\ cli_out' = get_track_dominance_data(laps, telemetry, request.d1, request.d2,
                                           request.lap1, request.lap2, resolution)
    /\ UNCHANGED <<DomFrame, Store, api_calls, OtherThanDom>>

ServedModes == {"served", "repeat", "compare"}

ProcessSession ==
    /\ mode \in ServedModes
    /\ LET store == process_session([session_json |-> session_json,
                                      laps_json |-> laps_json,
                                      tel_dir |-> tel_dir],
                                     laps, telemetry, resolution)
       IN  /\ session_json' = store.session_json
           /\ laps_json' = store.laps_json
           /\ tel_dir' = store.tel_dir
    /\ UNCHANGED <<DomFrame, cli_out, api_calls, OtherThanDom>>

ApiTrackDominance ==
    /\ mode \in {"served", "repeat"}
    /\ api_calls = <<>>
    /\ \E g1 \in GlobFirst(tel_dir, upper(request.d1)),
             g2 \in GlobFirst(tel_dir, upper(request.d2)) :
          api_calls' = <<[response |-> api_track_dominance(session_json, tel_dir,
                                                 storedExtras, request, g1, g2),
                          session |-> session_json,
                          files |-> tel_dir]>>
    /\ UNCHANGED <<DomFrame, Store, cli_out, OtherThanDom>>

NextDom == CliDominance \/ ProcessSession \/ ApiTrackDominance

SpecDom == InitDom /\ [][NextDom]_vars

(***************************************************************************)
(* Properties of track dominance.                                           *)
(***************************************************************************)
TotalDistance(tel) == SeqMax(Col(tel, "Distance"))

CliOk == cli_out.status = "ok"
Served == api_calls # <<>> /\ api_calls[1].response.status = 200
Frame == api_calls[1].response

\* the smaller of the two compared laps' total distances
SharedDistance(d1, d2) ==
    Min(TotalDistance(telemetry[d1]), TotalDistance(telemetry[d2]))

EquallySpaced(g) == \A i \in 2..(Len(g) - 1) : g[i + 1] - g[i] = g[2] - g[1]

REquallySpaced(g) ==
    \A i \in 2..(Len(g) - 1) : RSub(g[i + 1], g[i]) = RSub(g[2], g[1])

CliGrid ==
    CliOk =>
        LET g == cli_out.dist1
        IN  /\ cli_out.dist2 = g
            /\ Len(g) = resolution
            /\ g[1] = RInt(0)
            /\ g[Len(g)] = RInt(SharedDistance(cli_out.driver1, cli_out.driver2))
            /\ REquallySpaced(g)
            /\ \A i \in 1..Len(g) :
                  /\ RLeq(g[i], RInt(TotalDistance(telemetry[cli_out.driver1])))
                  /\ RLeq(g[i], RInt(TotalDistance(telemetry[cli_out.driver2])))

\* distances of the served documents count tenths
ServedGrid ==
    Served =>
        \A g \in {Frame.dist1, Frame.dist2} :
            /\ Len(g) = resolution
            /\ g[1] = 0
            /\ g[Len(g)] = 10 * SharedDistance(Frame.driver1, Frame.driver2)
            /\ EquallySpaced(g)
            /\ \A i \in 1..Len(g) :
                  /\ g[i] <= 10 * TotalDistance(telemetry[Frame.driver1])
                  /\ g[i] <= 10 * TotalDistance(telemetry[Frame.driver2])

\* C1: the reference grid of a dominance frame has `resolution` equally
\* spaced distances from 0 to min(totalDistanceA, totalDistanceB), so no grid
\* point lies beyond either lap's total distance -- in the command-line
\* engine and in the served pipeline.
C1_SharedGrid == CliGrid /\ ServedGrid

\* C2: at every output index the two drivers' values are taken at the same
\* lap distance, in the command-line engine and in the served pipeline.
C2_SameDistance ==
    /\ CliOk => \A i \in 1..Len(cli_out.dominance) : cli_out.dist1[i] = cli_out.dist2[i]
    /\ Served => \A i \in 1..Len(Frame.dominance) : Frame.dist1[i] = Frame.dist2[i]

\* C3: dominance[i] is +1 iff speed1[i] > speed2[i], -1 iff speed2[i] >
\* speed1[i], 0 iff the speeds are equal, and nothing else.
C3_Classification ==
    /\ CliOk =>
          \A i \in 1..Len(cli_out.dominance) :
              LET a == cli_out.speed1[i]
                  b == cli_out.speed2[i]
                  c == cli_out.dominance[i]
              IN  /\ c \in {1, -1, 0}
                  /\ c = 1 <=> a.num * b.den > b.num * a.den
                  /\ c = -1 <=> b.num * a.den > a.num * b.den
                  /\ c = 0 <=> a.num * b.den = b.num * a.den
    /\ Served =>
          \A i \in 1..Len(Frame.dominance) :
              LET a == Frame.speed1[i]
                  b == Frame.speed2[i]
                  c == Frame.dominance[i]
              IN  /\ c \in {1, -1, 0}
                  /\ c = 1 <=> a > b
                  /\ c = -1 <=> b > a
                  /\ c = 0 <=> a = b

C3_Witness ==
    /\ Served
    /\ \A c \in {1, -1, 0} : \E i \in 1..Len(Frame.dominance) : Frame.dominance[i] = c

\* C4: x, y, dominance, speed1 and speed2 all have `resolution` entries, and
\* so has every extra channel of either driver.
C4_Lengths ==
    /\ CliOk =>
          /\ Len(cli_out.x) = resolution /\ Len(cli_out.y) = resolution
          /\ Len(cli_out.dominance) = resolution
          /\ Len(cli_out.speed1) = resolution /\ Len(cli_out.speed2) = resolution
    /\ Served =>
          /\ Len(Frame.x) = resolution /\ Len(Frame.y) = resolution
          /\ Len(Frame.dominance) = resolution
          /\ Len(Frame.speed1) = resolution /\ Len(Frame.speed2) = resolution
          /\ \A f \in ExtraFields :
                Len(Frame.extra1[f]) = resolution /\ Len(Frame.extra2[f]) = resolution

C4_Witness ==
    /\ Served
    /\ storedExtras = MixedExtras
    /\ resolution > 2
    /\ Len(Frame.extra1["drs"]) = resolution
    /\ Len(Frame.speed2) = resolution

\* C5: an extra channel that is missing or shorter than `resolution` comes
\* out as its stored values followed by zeros up to `resolution` entries; a
\* longer one comes out as its first `resolution` entries.
PadContract(stored, out) ==
    /\ Len(out) = resolution
    /\ \A i \in 1..resolution :
          out[i] = IF i <= Len(stored) THEN stored[i] ELSE 0

C5_PadContract ==
    Served =>
        \A f \in ExtraFields :
            /\ PadContract(storedExtras[Frame.driver1][f], Frame.extra1[f])
            /\ PadContract(storedExtras[Frame.driver2][f], Frame.extra2[f])

\* a three-sample channel zero-padded to four, beside a truncated and a missing one
C5_Witness ==
    /\ Served
    /\ storedExtras = MixedExtras
    /\ Frame.extra1["throttle"] = <<1, 2, 3, 0>>
    /\ Frame.extra2["drs"] = <<1, 2, 3, 4>>
    /\ Frame.extra1["rpm"] = <<0, 0, 0, 0>>

\* C8: no dominance frame is produced when a trace has fewer than 2 samples
\* or a total distance below 100.
Resamplable(d) == Len(telemetry[d]) >= 2 /\ TotalDistance(telemetry[d]) >= MIN_DISTANCE

C8_Validation ==
    /\ CliOk => Resamplable(cli_out.driver1) /\ Resamplable(cli_out.driver2)
    /\ Served => Resamplable(Frame.driver1) /\ Resamplable(Frame.driver2)

(***************************************************************************)
(* The dominance percentages, over dominance arrays of every length up to   *)
(* MaxPoints.                                                               *)
(***************************************************************************)
InitPct ==
    /\ IdleDominance /\ IdleCompare /\ IdleAnalysis /\ IdleAux
    /\ laps = <<>>
    /\ request = BestLapRequest
    /\ mode = "pct"
    /\ dominance \in DominanceArrays
    /\ pct_out = NoOutput

Summarise ==
    /\ mode = "pct"
    /\ pct_out = NoOutput
    /\ pct_out' = [status |-> "ok",
                   d1_pct |-> summary(dominance).d1_pct,
                   d2_pct |-> summary(dominance).d2_pct]
    /\ UNCHANGED <<DomFrame, Store, cli_out, api_calls, dominance, cmp_out, compare_calls,
                   analysis, Aux>>

NextPct == Summarise

SpecPct == InitPct /\ [][NextPct]_vars

Summarised == pct_out.status = "ok"

\* C6: with at least one point, d1_pct = floor(100 * #(+1) / #points) and
\* d2_pct = floor(100 * #(-1) / #points); ties count for neither.
C6_FloorPercent ==
    Summarised /\ Len(dominance) >= 1 =>
        /\ pct_out.d1_pct = (100 * Count(dominance, 1)) \div Len(dominance)
        /\ pct_out.d2_pct = (100 * Count(dominance, -1)) \div Len(dominance)

\* C7: d1_pct + d2_pct <= 100, and the sum is 100 only when no point is a tie.
C7_PercentBound ==
    Summarised =>
        /\ pct_out.d1_pct + pct_out.d2_pct <= 100
        /\ pct_out.d1_pct + pct_out.d2_pct = 100 => Count(dominance, 0) = 0

C7_Witness ==
    /\ Summarised
    /\ pct_out.d1_pct + pct_out.d2_pct = 100
    /\ pct_out.d1_pct > 0 /\ pct_out.d2_pct > 0

(***************************************************************************)
(* Repeated track-dominance requests: every request over two drivers or     *)
(* the pattern "*", with and without lap numbers, issued twice.             *)
(***************************************************************************)
RepeatTraces == {t \in Traces : Len(t) = 2 /\ t[1].Speed = 100}

Requests ==
    {[d1 |-> a, d2 |-> b, lap1 |-> l1, lap2 |-> l2] :
        a \in Drivers \cup {"*"}, b \in Drivers \cup {"*"},
        l1 \in {None} \cup {Some(BestLapNum[d]) : d \in Drivers},
        l2 \in {None} \cup {Some(BestLapNum[d]) : d \in Drivers}}

InitRepeat ==
    /\ telemetry \in [Drivers -> RepeatTraces]
    /\ resolution = 2
    /\ storedExtras = NoExtras
    /\ mode = "repeat"
    /\ laps = DomLaps
    /\ session_json = None
    /\ laps_json = None
    /\ tel_dir = <<>>
    /\ request \in Requests
    /\ cli_out = NoOutput
    /\ api_calls = <<>>
    /\ IdlePct /\ IdleCompare /\ IdleAnalysis /\ IdleAux

RepeatTrackDominance ==
    /\ mode = "repeat"
    /\ Len(api_calls) = 1
    /\ \E g1 \in GlobFirst(tel_dir, upper(request.d1)),
             g2 \in GlobFirst(tel_dir, upper(request.d2)) :
          api_calls' = Append(api_calls,
                              [response |-> api_track_dominance(session_json, tel_dir,
                                                storedExtras, request, g1, g2),
                               session |-> session_json,
                               files |-> tel_dir])
    /\ UNCHANGED <<DomFrame, Store, cli_out, OtherThanDom>>

NextRepeat == ProcessSession \/ ApiTrackDominance \/ RepeatTrackDominance

SpecRepeat == InitRepeat /\ [][NextRepeat]_vars

InitCompare ==
    /\ IdleDominance /\ IdlePct /\ IdleAnalysis /\ IdleAux
    /\ mode \in {"cli_compare", "compare"}
    /\ laps \in CompareLaps
    /\ request \in CompareRequests
    /\ cmp_out = NoOutput
    /\ compare_calls = <<>>

CliCompare ==
    /\ mode = "cli_compare"
    /\ cmp_out = NoOutput
    /\ cmp_out' = compare_two_drivers(get_sector_data(laps), request.d1, request.d2,
                                      request.lap1, request.lap2)
    /\ UNCHANGED <<DomFrame, Store, cli_out, api_calls, dominance, pct_out, compare_calls,
                   analysis, Aux>>

ApiCompare ==
    /\ mode = "compare"
    /\ compare_calls = <<>>
    /\ compare_calls' = <<api_compare(laps_json, session_json, request)>>
    /\ UNCHANGED <<DomFrame, Store, cli_out, api_calls, dominance, pct_out, cmp_out,
                   analysis, Aux>>

NextCompare == CliCompare \/ ProcessSession \/ ApiCompare

SpecCompare == InitCompare /\ [][NextCompare]_vars

Compared == cmp_out.status = "ok"
Answered == compare_calls # <<>> /\ compare_calls[1].status = 200
Answer == compare_calls[1]

\* the sign convention of one sector entry of a comparison of a with b
SectorConvention(s, a, b) ==
    s.time1 # None /\ s.time2 # None =>
        /\ s.delta = Some(Get(s.time1) - Get(s.time2))
        /\ s.faster = "TIE" <=> Get(s.delta) = 0
        /\ a # b => /\ s.faster = a <=> Get(s.delta) < 0
                    /\ s.faster = b <=> Get(s.delta) > 0
        /\ a = b => s.faster \in {a, "TIE"}

\* C10: for each of the three sectors whose time is present in both laps,
\* delta = time(A) - time(B); the faster driver is A iff delta < 0, B iff
\* delta > 0, and "TIE" iff delta = 0 -- in compare_two_drivers and in
\* /api/compare.  (When A and B are the same driver the label can only be
\* that driver or "TIE".)
C10_SectorSign ==
    /\ Compared =>
          /\ Len(cmp_out.sectors) = 3
          /\ \A k \in 1..3 :
                SectorConvention(cmp_out.sectors[k], cmp_out.driver1, cmp_out.driver2)
    /\ Answered =>
          /\ Len(Answer.sectors) = 3
          /\ \A k \in 1..3 :
                SectorConvention(Answer.sectors[k], Answer.driver1, Answer.driver2)

\* one answer in which A takes a sector, B takes a sector and one is tied
C10_Witness ==
    /\ Answered
    /\ Answer.driver1 # Answer.driver2
    /\ \E k1, k2, k3 \in 1..3 :
          /\ Answer.sectors[k1].delta # None /\ Get(Answer.sectors[k1].delta) < 0
          /\ Answer.sectors[k1].faster = Answer.driver1
          /\ Answer.sectors[k2].delta # None /\ Get(Answer.sectors[k2].delta) > 0
          /\ Answer.sectors[k2].faster = Answer.driver2
          /\ Answer.sectors[k3].delta = Some(0)
          /\ Answer.sectors[k3].faster = "TIE"

\* the sign convention of one speed-trap entry of a comparison of a with b
TrapConvention(t, a, b) ==
    t.speed1 # None /\ t.speed2 # None =>
        /\ t.delta = Some(Get(t.speed1) - Get(t.speed2))
        /\ t.faster = "TIE" <=> Get(t.speed1) = Get(t.speed2)
        /\ a # b => /\ t.faster = a <=> Get(t.speed1) > Get(t.speed2)
                    /\ t.faster = b <=> Get(t.speed1) < Get(t.speed2)
        /\ a = b => t.faster \in {a, "TIE"}

\* C11: for each of the four speed traps read in both laps, delta =
\* speed(A) - speed(B); the faster driver is A iff delta > 0, B iff
\* delta < 0, and "TIE" iff delta = 0 -- in compare_two_drivers and in
\* /api/compare.
C11_TrapSign ==
    /\ Compared =>
          /\ Len(cmp_out.speed_traps) = 4
          /\ \A k \in 1..4 :
                TrapConvention(cmp_out.speed_traps[k], cmp_out.driver1, cmp_out.driver2)
    /\ Answered =>
          /\ Len(Answer.speed_traps) = 4
          /\ \A k \in 1..4 :
                TrapConvention(Answer.speed_traps[k], Answer.driver1, Answer.driver2)

\* the overall verdict of a comparison r: lower lap time wins, and the
\* verdict agrees with the sign of the reported overall_delta
OverallVerdict(r) ==
    LET t1 == r.overall_time1
        t2 == r.overall_time2
        both == t1 # None /\ t2 # None
        f == r.overall_faster
        delta == r.overall_delta
    IN  /\ f = "TIE" <=> (both /\ Get(t1) = Get(t2))
        /\ f = "TIE" <=> delta = Some(0)
        /\ r.driver1 # r.driver2 =>
              /\ f = r.driver1 <=> (both /\ Get(t1) < Get(t2))
              /\ f = r.driver2 <=> (both /\ Get(t2) < Get(t1))
              /\ f = r.driver1 <=> (delta # None /\ Get(delta) < 0)
              /\ f = r.driver2 <=> (delta # None /\ Get(delta) > 0)

\* C12: overall_faster is A iff lapTime(A) < lapTime(B), B iff lapTime(B) <
\* lapTime(A), "TIE" iff the lap times are equal, and it always agrees with
\* the sign of the reported overall_delta.
C12_OverallVerdict ==
    /\ Compared => OverallVerdict(cmp_out)
    /\ Answered => OverallVerdict(Answer)

\* an entry of a comparison that lacks a value on either side
NotApplicable(v1, v2, entry) ==
    v1 = None \/ v2 = None => entry.delta = None /\ entry.faster = "N/A"

\* C13: a sector or speed-trap entry for which either lap lacks the value
\* has an absent delta and faster = "N/A": it is never a tie and never a win.
C13_Absent ==
    /\ Compared =>
          /\ \A k \in 1..3 : NotApplicable(cmp_out.sectors[k].time1,
                                            cmp_out.sectors[k].time2, cmp_out.sectors[k])
          /\ \A k \in 1..4 : NotApplicable(cmp_out.speed_traps[k].speed1,
                                            cmp_out.speed_traps[k].speed2,
                                            cmp_out.speed_traps[k])
    /\ Answered =>
          /\ \A k \in 1..3 : NotApplicable(Answer.sectors[k].time1,
                                            Answer.sectors[k].time2, Answer.sectors[k])
          /\ \A k \in 1..4 : NotApplicable(Answer.speed_traps[k].speed1,
                                            Answer.speed_traps[k].speed2,
                                            Answer.speed_traps[k])

(***************************************************************************)
(* Lap selection: the comparison and the track dominance of both forms,     *)
(* over lap tables whose laps may lack a lap time, may be timed at 0 s or   *)
(* above 999 s, and may be inaccurate, for requests that name a lap, no     *)
(* lap, a lap that does not exist, and a driver that is not in the table.   *)
(***************************************************************************)
\* absent, 0 s, 90 s, 90.0002 s and 1000 s
SelectTimes == {None, Some(0), Some(450000), Some(450001), Some(5000000)}

SelectLap(d, n, accurate, lap_time) ==
    Lap(d, n, accurate, lap_time,
        [k \in 1..3 |-> Cyclic(Sectors, n + k)],
        [k \in 1..4 |-> Cyclic(Readings, n + k)])

SelectLaps ==
    {<<SelectLap("VER", 5, a5, t5), SelectLap("VER", 6, TRUE, t6),
       SelectLap("HAM", 7, a7, Some(450500)), SelectLap("HAM", 8, FALSE, Some(400000))>> :
        a5 \in BOOLEAN, t5 \in SelectTimes, t6 \in SelectTimes, a7 \in BOOLEAN}

SelectRequests ==
    {[d1 |-> a, d2 |-> b, lap1 |-> l1, lap2 |-> l2] :
        a \in {"VER", "ver", "BOT"}, b \in {"HAM", "VER"},
        l1 \in {None, Some(5), Some(9)}, l2 \in {None, Some(8)}}

\* one trace for every lap: two samples, 120 m apart
SelectTrace ==
    <<[Distance |-> 0, X |-> TrackX(0), Y |-> TrackY(0), Speed |-> 100],
      [Distance |-> 120, X |-> TrackX(120), Y |-> TrackY(120), Speed |-> 200]>>

InitSelect ==
    /\ telemetry = [d \in Drivers |-> SelectTrace]
    /\ resolution = 2
    /\ storedExtras = NoExtras
    /\ mode \in {"cli_compare", "compare", "cli", "served"}
    /\ laps \in SelectLaps
    /\ request \in SelectRequests
    /\ session_json = None
    /\ laps_json = None
    /\ tel_dir = <<>>
    /\ cli_out = NoOutput
    /\ api_calls = <<>>
    /\ IdlePct /\ IdleCompare /\ IdleAnalysis /\ IdleAux

NextSelect ==
    CliCompare \/ CliDominance \/ ProcessSession \/ ApiCompare \/ ApiTrackDominance

SpecSelect == InitSelect /\ [][NextSelect]_vars

\* the accurate laps of the driver a request names
AccurateOf(driver) == SelectSeq(laps, LAMBDA r : r.IsAccurate /\ r.Driver = upper(driver))
StoredOf(driver) == SelectSeq(Get(laps_json), LAMBDA l : l.driver = upper(driver))

\* lap n is a lap of rows (with time field f) that is timed, and no timed lap
\* of rows is quicker
Quickest(rows, n, number, time) ==
    \E i \in 1..Len(rows) :
        /\ rows[i][number] = n
        /\ rows[i][time] # None
        /\ \A k \in 1..Len(rows) :
              rows[k][time] # None => Get(rows[i][time]) <= Get(rows[k][time])

Timed(rows, time) == \E i \in 1..Len(rows) : rows[i][time] # None

\* C14: with no lap number given, the selected lap is one of the driver's
\* accurate laps whose lap time is present and at most that of every other
\* timed accurate lap; an untimed lap is never preferred over a timed one,
\* whether timed at 0 s or above 999 s.
C14_BestLap ==
    /\ Compared =>
          /\ request.lap1 = None /\ Timed(AccurateOf(request.d1), "LapTime") =>
                Quickest(AccurateOf(request.d1), cmp_out.lap1_num, "LapNumber", "LapTime")
          /\ request.lap2 = None /\ Timed(AccurateOf(request.d2), "LapTime") =>
                Quickest(AccurateOf(request.d2), cmp_out.lap2_num, "LapNumber", "LapTime")
    /\ Answered =>
          /\ request.lap1 = None /\ Timed(StoredOf(request.d1), "lapTime") =>
                Quickest(StoredOf(request.d1), Answer.lap1_num, "lapNumber", "lapTime")
          /\ request.lap2 = None /\ Timed(StoredOf(request.d2), "lapTime") =>
                Quickest(StoredOf(request.d2), Answer.lap2_num, "lapNumber", "lapTime")

\* the lap numbers of the rows, in ascending order
LapNumbers(rows, number) ==
    sorted([i \in 1..Len(rows) |-> rows[i][number]], [i \in 1..Len(rows) |-> rows[i][number]])

HasLap(rows, n, number) == \E i \in 1..Len(rows) : Some(rows[i][number]) = n

\* the first of the two selections that names a lap its driver does not have
MissingFirst(rows1, rows2, number) ==
    request.lap1 # None /\ ~HasLap(rows1, request.lap1, number)

MissingSecond(rows1, rows2, number) ==
    /\ request.lap1 = None \/ HasLap(rows1, request.lap1, number)
    /\ request.lap2 # None /\ ~HasLap(rows2, request.lap2, number)

\* error e reports lap n of driver d as not found and lists the laps of rows
ListsLaps(e, d, n, rows, number) ==
    /\ e.driver = upper(d)
    /\ e.lap = Get(n)
    /\ "available" \in DOMAIN e
    /\ e.available = LapNumbers(rows, number)

CliExplicitLap ==
    cmp_out # NoOutput /\ AccurateOf(request.d1) # <<>> /\ AccurateOf(request.d2) # <<>> =>
          LET rows1 == AccurateOf(request.d1)
              rows2 == AccurateOf(request.d2)
          IN  /\ MissingFirst(rows1, rows2, "LapNumber") =>
                    /\ cmp_out.status = "error"
                    /\ cmp_out.error = "ValueError: lap not found"
                    /\ ListsLaps(cmp_out, request.d1, request.lap1, rows1, "LapNumber")
              /\ MissingSecond(rows1, rows2, "LapNumber") /\ cmp_out.status = "error" =>
                    \/ cmp_out.error = "KeyError"
                    \/ /\ cmp_out.error = "ValueError: lap not found"
                       /\ ListsLaps(cmp_out, request.d2, request.lap2, rows2, "LapNumber")
              /\ MissingSecond(rows1, rows2, "LapNumber") => cmp_out.status = "error"
              /\ Compared /\ request.lap1 # None => Some(cmp_out.lap1_num) = request.lap1
              /\ Compared /\ request.lap2 # None => Some(cmp_out.lap2_num) = request.lap2

ApiExplicitLap ==
    compare_calls # <<>> /\ laps_json # None
       /\ StoredOf(request.d1) # <<>> /\ StoredOf(request.d2) # <<>> =>
          LET rows1 == StoredOf(request.d1)
              rows2 == StoredOf(request.d2)
          IN  /\ MissingFirst(rows1, rows2, "lapNumber") =>
                    /\ Answer.status = 400
                    /\ Answer.error = "Lap not found"
                    /\ ListsLaps(Answer, request.d1, request.lap1, rows1, "lapNumber")
              /\ MissingSecond(rows1, rows2, "lapNumber") =>
                    /\ Answer.status = 400
                    /\ Answer.error = "Lap not found"
                    /\ ListsLaps(Answer, request.d2, request.lap2, rows2, "lapNumber")
              /\ Answered /\ request.lap1 # None => Some(Answer.lap1_num) = request.lap1
              /\ Answered /\ request.lap2 # None => Some(Answer.lap2_num) = request.lap2

\* C15: when a lap number is given and the driver has no accurate lap with
\* that number, the comparison fails with a not-found error that lists the
\* driver's available lap numbers; when the lap exists, it is the selected
\* lap.
C15_ExplicitLap == CliExplicitLap /\ ApiExplicitLap

IsAccurateLap(driver, n) ==
    \E i \in 1..Len(laps) :
        laps[i].Driver = upper(driver) /\ laps[i].LapNumber = n /\ laps[i].IsAccurate

CleanedAccurate ==
    \A i \in 1..Len(get_sector_data(laps)) : get_sector_data(laps)[i].IsAccurate

PersistedAccurate ==
    laps_json # None =>
        \A i \in 1..Len(Get(laps_json)) :
            IsAccurateLap(Get(laps_json)[i].driver, Get(laps_json)[i].lapNumber)

ComparedAccurate ==
    /\ Compared => /\ IsAccurateLap(request.d1, cmp_out.lap1_num)
                   /\ IsAccurateLap(request.d2, cmp_out.lap2_num)
    /\ Answered => /\ IsAccurateLap(request.d1, Answer.lap1_num)
                   /\ IsAccurateLap(request.d2, Answer.lap2_num)

ServedDominanceAccurate ==
    api_calls # <<>> /\ api_calls[1].response.status = 200 =>
        /\ IsAccurateLap(request.d1, api_calls[1].response.lap1_num)
        /\ IsAccurateLap(request.d2, api_calls[1].response.lap2_num)

CliDominanceAccurate ==
    cli_out.status = "ok" =>
        /\ IsAccurateLap(request.d1, cli_out.lap1_num)
        /\ IsAccurateLap(request.d2, cli_out.lap2_num)

\* C17: a lap flagged inaccurate is never part of the cleaned lap table, of
\* the persisted laps, of a comparison, or of a track-dominance result,
\* whether it is asked for by number or would be the driver's fastest lap.
C17_AccurateOnly ==
    /\ CleanedAccurate
    /\ PersistedAccurate
    /\ ComparedAccurate
    /\ ServedDominanceAccurate
    /\ CliDominanceAccurate

(***************************************************************************)
(* The full field analysis: sector_analysis.get_best_sector_times,          *)
(* get_average_sector_times and get_sector_speed_data on the cleaned lap    *)
(* table.  Sums and means are exact rationals; an absent value (NaN) is     *)
(* None.  DataFrame.sort_values is called without kind=, so it sorts with   *)
(* quicksort, which is not stable: rows with equal keys come out in any     *)
(* order, and each table is the set of its possible outcomes.               *)
(***************************************************************************)
AnalysisDrivers == {"HAM", "LEC", "VER"}

\* the order of the driver codes as Python compares strings
DriverRank == [d \in AnalysisDrivers |-> IF d = "HAM" THEN 1 ELSE IF d = "LEC" THEN 2 ELSE 3]

\* groupby("Driver"): the group keys, in ascending order
group_keys(ls) ==
    LET ds == unique(Col(ls, "Driver"))
    IN  sorted(ds, [i \in 1..Len(ds) |-> DriverRank[ds[i]]])

\* the present values of a column, in row order
present(rows, col) ==
    LET vals == SelectSeq(Col(rows, col), LAMBDA v : v # None)
    IN  [i \in 1..Len(vals) |-> Get(vals[i])]

RECURSIVE RSum(_)
RSum(s) == IF s = <<>> THEN RInt(0) ELSE RAdd(s[1], RSum(Tail(s)))

\* GroupBy.min(): the least present value of the group, None when there is none
group_min(rows, col) ==
    LET vals == present(rows, col)
    IN  IF vals = <<>> THEN None
        ELSE Some(RInt(SetMin({vals[i] : i \in 1..Len(vals)})))

\* GroupBy.mean(): the mean of the present values, None when there is none
group_mean(rows, col) ==
    LET vals == present(rows, col)
    IN  IF vals = <<>> THEN None
        ELSE Some(RDiv(RSum([i \in 1..Len(vals) |-> RInt(vals[i])]), RInt(Len(vals))))

\* DataFrame.sum(axis=1): the sum of the present values; absent values are
\* skipped, so a row without any value sums to 0
row_sum(vals) ==
    LET there == SelectSeq(vals, LAMBDA v : v # None)
    IN  RSum([i \in 1..Len(there) |-> Get(there[i])])

\* DataFrame.mean(axis=1): the mean of the present values, None without any
row_mean(vals) ==
    LET there == SelectSeq(vals, LAMBDA v : v # None)
    IN  IF there = <<>> THEN None
        ELSE Some(RDiv(RSum([i \in 1..Len(there) |-> Get(there[i])]), RInt(Len(there))))

Perms(n) == {p \in [1..n -> 1..n] : \A i, j \in 1..n : i # j => p[i] # p[j]}

sort_values_unsorted(rows, keys, ascending) == {rows}

\* DataFrame.sort_values(by, ascending): every arrangement of the rows in
\* which the keys are in order and the rows without a key come last
sort_values(rows, keys, ascending) ==
    LET n == Len(rows)
        InOrder(a, b) ==
            IF a = None THEN b = None
            ELSE IF b = None THEN TRUE
            ELSE IF ascending THEN RLeq(Get(a), Get(b)) ELSE RLeq(Get(b), Get(a))
    IN  {[i \in 1..n |-> rows[p[i]]] :
            p \in {q \in Perms(n) : \A i \in 1..(n - 1) : InOrder(keys[q[i]], keys[q[i + 1]])}}

\* laps.drop_duplicates("Driver").set_index("Driver")["Team"]
team_map(ls, d) == Rows(ls, d)[1].Team

get_best_sector_times(ls) ==
    LET keys == group_keys(ls)
        best == [i \in 1..Len(keys) |->
                    LET rows == Rows(ls, keys[i])
                        s1 == group_min(rows, "Sector1Time")
                        s2 == group_min(rows, "Sector2Time")
                        s3 == group_min(rows, "Sector3Time")
                    IN  [Driver |-> keys[i],
                         Sector1Time |-> s1, Sector2Time |-> s2, Sector3Time |-> s3,
                         Team |-> team_map(ls, keys[i]),
                         TotalBest |-> row_sum(<<s1, s2, s3>>)]]
    IN  sort_values(best, [i \in 1..Len(best) |-> Some(best[i].TotalBest)], TRUE)

get_average_sector_times(ls) ==
    LET keys == group_keys(ls)
        avg == [i \in 1..Len(keys) |->
                    LET rows == Rows(ls, keys[i])
                        s1 == group_mean(rows, "Sector1Time")
                        s2 == group_mean(rows, "Sector2Time")
                        s3 == group_mean(rows, "Sector3Time")
                    IN  [Driver |-> keys[i],
                         Sector1Time |-> s1, Sector2Time |-> s2, Sector3Time |-> s3,
                         Team |-> team_map(ls, keys[i]),
                         TotalAvg |-> row_sum(<<s1, s2, s3>>)]]
    IN  sort_values(avg, [i \in 1..Len(avg) |-> Some(avg[i].TotalAvg)], TRUE)

get_sector_speed_data(ls) ==
    LET keys == group_keys(ls)
        speeds == [i \in 1..Len(keys) |->
                    LET rows == Rows(ls, keys[i])
                        i1 == group_mean(rows, "SpeedI1")
                        i2 == group_mean(rows, "SpeedI2")
                        fl == group_mean(rows, "SpeedFL")
                        st == group_mean(rows, "SpeedST")
                    IN  [Driver |-> keys[i],
                         SpeedI1 |-> i1, SpeedI2 |-> i2, SpeedFL |-> fl, SpeedST |-> st,
                         Team |-> team_map(ls, keys[i]),
                         AvgSpeed |-> row_mean(<<i1, i2, fl, st>>)]]
    IN  sort_values(speeds, [i \in 1..Len(speeds) |-> speeds[i].AvgSpeed], FALSE)

\* main.cmd_full_analysis on the cleaned table of the session
cmd_full_analysis(ls) ==
    {[status |-> "ok", best_df |-> b, avg_df |-> a, speeds_df |-> v] :
        b \in get_best_sector_times(ls),
        a \in get_average_sector_times(ls),
        v \in get_sector_speed_data(ls)}

\* absent, 30 s and 30.1 s
AnalysisTimes == {None, Some(150000), Some(150500)}

\* absent, 285 km/h and 300 km/h
AnalysisReadings == {None, Some(1425000), Some(1500000)}

AnalysisLap(d, n, accurate, s1, s2, v) ==
    Lap(d, n, accurate, None, <<s1, s2, Some(150000)>>, <<v, v, None, v>>)

\* one lap of each of three drivers, in the order they were driven, a second
\* lap of VER and an inaccurate lap of HAM with the shortest sectors of all
AnalysisLaps ==
    {<<AnalysisLap("VER", 5, TRUE, a1, Some(150000), v1),
       AnalysisLap("HAM", 7, TRUE, a2, b2, v2),
       AnalysisLap("LEC", 9, TRUE, a3, b3, v3),
       Lap("VER", 6, TRUE, None, <<Some(150500), Some(150001), Some(150500)>>,
           <<Some(1425200), None, Some(1500000), None>>),
       AnalysisLap("HAM", 8, FALSE, Some(5), Some(5), Some(2000000))>> :
        a1 \in AnalysisTimes, a2 \in AnalysisTimes, a3 \in AnalysisTimes,
        b2 \in AnalysisTimes \ {None}, b3 \in AnalysisTimes \ {None},
        v1 \in AnalysisReadings, v2 \in AnalysisReadings, v3 \in AnalysisReadings}

InitAnalysis ==
    /\ telemetry = [d \in Drivers |-> SelectTrace]
    /\ resolution = 2
    /\ storedExtras = NoExtras
    /\ mode = "analysis"
    /\ laps \in AnalysisLaps
    /\ request = BestLapRequest
    /\ session_json = None
    /\ laps_json = None
    /\ tel_dir = <<>>
    /\ cli_out = NoOutput
    /\ api_calls = <<>>
    /\ IdlePct /\ IdleCompare /\ IdleAnalysis /\ IdleAux

CmdFullAnalysis ==
    /\ mode = "analysis"
    /\ analysis = NoOutput
    /\ analysis' \in cmd_full_analysis(get_sector_data(laps))
    /\ UNCHANGED <<DomFrame, Store, cli_out, api_calls, dominance, pct_out, cmp_out,
                   compare_calls, Aux>>

NextAnalysis == CmdFullAnalysis

SpecAnalysis == InitAnalysis /\ [][NextAnalysis]_vars

Analysed == analysis.status = "ok"

\* the accurate laps of a driver of the analysed session
LapsOf(d) == SelectSeq(laps, LAMBDA r : r.IsAccurate /\ r.Driver = d)

NonDecreasingTotal(df) ==
    \A i \in 1..(Len(df) - 1) : RLeq(df[i].TotalBest, df[i + 1].TotalBest)

\* rows without an average speed are not ordered by it; they come last
NonIncreasingSpeed(df) ==
    \A i \in 1..(Len(df) - 1) :
        /\ df[i].AvgSpeed # None /\ df[i + 1].AvgSpeed # None =>
              RLeq(Get(df[i + 1].AvgSpeed), Get(df[i].AvgSpeed))
        /\ df[i].AvgSpeed = None => df[i + 1].AvgSpeed = None

\* C18: the rows of the best-sector table are non-decreasing in total-best
\* and the rows of the speed-trap table are non-increasing in overall
\* average speed.
C18_Sorted ==
    Analysed => NonDecreasingTotal(analysis.best_df) /\ NonIncreasingSpeed(analysis.speeds_df)

\* both tables came out in another order than the grouping order, with
\* distinct totals and distinct average speeds in them
C18_Witness ==
    /\ Analysed
    /\ analysis.best_df[1].Driver # "HAM"
    /\ analysis.best_df[1].TotalBest # analysis.best_df[3].TotalBest
    /\ analysis.speeds_df[1].Driver # "HAM"
    /\ analysis.speeds_df[1].AvgSpeed # None
    /\ analysis.speeds_df[2].AvgSpeed # None
    /\ analysis.speeds_df[1].AvgSpeed # analysis.speeds_df[2].AvgSpeed

\* the least present value of a sector over the driver's accurate laps
SectorMinimum(d, col) ==
    LET rows == LapsOf(d)
        idx == {k \in 1..Len(rows) : rows[k][col] # None}
    IN  IF idx = {} THEN None
        ELSE Some(RInt(CHOOSE m \in {Get(rows[k][col]) : k \in idx} :
                          \A k \in idx : m <= Get(rows[k][col])))

Complete(row) ==
    row.Sector1Time # None /\ row.Sector2Time # None /\ row.Sector3Time # None

\* the sectors of a row added up with an absent one counted as zero
ZeroFilledTotal(row) ==
    LET val(o) == IF o = None THEN RInt(0) ELSE Get(o)
    IN  RAdd(RAdd(val(row.Sector1Time), val(row.Sector2Time)), val(row.Sector3Time))

\* C19: each driver's total-best is the sum of its three per-sector minima
\* over present values; a driver lacking a sector minimum does not get the
\* total of its remaining sectors, and is not ranked ahead of a driver with
\* all three sectors.
C19_TotalBest ==
    Analysed =>
        LET df == analysis.best_df
        IN  /\ \A i \in 1..Len(df) :
                  /\ df[i].Sector1Time = SectorMinimum(df[i].Driver, "Sector1Time")
                  /\ df[i].Sector2Time = SectorMinimum(df[i].Driver, "Sector2Time")
                  /\ df[i].Sector3Time = SectorMinimum(df[i].Driver, "Sector3Time")
                  /\ Complete(df[i]) =>
                        df[i].TotalBest = RAdd(RAdd(Get(df[i].Sector1Time),
                                                    Get(df[i].Sector2Time)),
                                               Get(df[i].Sector3Time))
                  /\ ~Complete(df[i]) => df[i].TotalBest # ZeroFilledTotal(df[i])
            /\ \A i, j \in 1..Len(df) :
                  i < j /\ Complete(df[j]) => Complete(df[i])

\* C20: drivers of equal total-best are listed in ascending order of their
\* driver codes.
C20_TieOrder ==
    Analysed =>
        LET df == analysis.best_df
        IN  \A i, j \in 1..Len(df) :
                i < j /\ df[i].TotalBest = df[j].TotalBest =>
                    DriverRank[df[i].Driver] < DriverRank[df[j].Driver]

(***************************************************************************)
(* Listing the drivers: main.cmd_compare with --list-drivers, on the        *)
(* cleaned lap table, and process_session on the same session, over lap     *)
(* tables in which any lap, or every lap, may be inaccurate.                *)
(***************************************************************************)
\* sector_analysis.list_available_drivers: one row per driver and team,
\* sorted by best lap time; a table without rows gives a summary without rows
list_available_drivers(ls) ==
    LET keys == group_keys(ls)
        rows == [i \in 1..Len(keys) |->
                    LET drv_laps == Rows(ls, keys[i])
                    IN  [Driver |-> keys[i],
                         Team |-> drv_laps[1].Team,
                         TotalLaps |-> Len(drv_laps),
                         BestLap |-> min_lap_time(drv_laps),
                         LapNumbers |-> sorted(Col(drv_laps, "LapNumber"),
                                               Col(drv_laps, "LapNumber"))]]
        by == [i \in 1..Len(rows) |->
                  IF rows[i].BestLap = None THEN None ELSE Some(RInt(Get(rows[i].BestLap)))]
    IN  {[status |-> "ok", summary |-> t] : t \in sort_values(rows, by, TRUE)}

ListLaps ==
    {<<SelectLap("VER", 5, a5, t5), SelectLap("VER", 6, a6, Some(450001)),
       SelectLap("HAM", 7, a7, Some(450500)), SelectLap("HAM", 8, a8, Some(400000))>> :
        a5 \in BOOLEAN, a6 \in BOOLEAN, a7 \in BOOLEAN, a8 \in BOOLEAN,
        t5 \in SelectTimes}

InitList ==
    /\ telemetry = [d \in Drivers |-> SelectTrace]
    /\ resolution = 2
    /\ storedExtras = NoExtras
    /\ mode \in {"list", "served"}
    /\ laps \in ListLaps
    /\ request = BestLapRequest
    /\ session_json = None
    /\ laps_json = None
    /\ tel_dir = <<>>
    /\ cli_out = NoOutput
    /\ api_calls = <<>>
    /\ IdlePct /\ IdleCompare /\ IdleAnalysis /\ IdleListing /\ IdleColor /\ IdleLookup
    /\ IdleRuns /\ IdleSchedule

CliListDrivers ==
    /\ mode = "list"
    /\ listing = NoOutput
    /\ listing' \in list_available_drivers(get_sector_data(laps))
    /\ UNCHANGED <<DomFrame, Store, cli_out, api_calls, dominance, pct_out, cmp_out,
                   compare_calls, analysis, ColorVars, LookupVars, RunVars, ScheduleVars>>

NextList == CliListDrivers \/ ProcessSession

SpecList == InitList /\ [][NextList]_vars

NoAccurateLap == \A i \in 1..Len(laps) : ~laps[i].IsAccurate

\* C21: when no lap of the session is accurate, listing the drivers fails
\* with an error instead of returning an empty result, and neither
\* session.json nor laps.json is written for the session.
C21_EmptyFails ==
    NoAccurateLap =>
        /\ listing # NoOutput => listing.status = "error"
        /\ session_json = None
        /\ laps_json = None

(***************************************************************************)
(* The colours of a compared pair: app._get_color_pair on the stored        *)
(* drivers list, and graph_generator.plot_driver_comparison and             *)
(* plot_track_dominance on the colour map of sector_analysis.               *)
(* get_team_colors, for every colour the provider may give to each team,    *)
(* a failure of the provider ("raise") included.                            *)
(***************************************************************************)
ColorDrivers == {"VER", "PER", "HAM", "BOT"}

\* PER is the team mate of VER; the team of BOT is not in the fallback table
ColorTeam == [d \in ColorDrivers |->
                 IF d \in {"VER", "PER"} THEN "Red Bull Racing"
                 ELSE IF d = "HAM" THEN "Mercedes" ELSE "Cadillac"]

ColorTeams == {ColorTeam[d] : d \in ColorDrivers}

ProviderColors == {"#3671C6", "#27F4D2", "#FFFFFF", "#ffffff", "raise"}

\* try: get_team_color(team) except: "#FFFFFF"
provided(team) == IF provider[team] = "raise" THEN "#FFFFFF" ELSE provider[team]

\* the drivers list of the session.json that process_session wrote
color_drivers_list ==
    LET order == <<"VER", "PER", "HAM", "BOT">>
    IN  [i \in 1..Len(order) |->
            [driver |-> order[i], team |-> ColorTeam[order[i]],
             color |-> resolve_color(provided(ColorTeam[order[i]]), ColorTeam[order[i]])]]

\* sector_analysis.get_team_colors: the provider's colour of each driver
get_team_colors == [d \in ColorDrivers |-> provided(ColorTeam[d])]

\* str.upper() on the colour codes
color_upper(c) == IF c = "#ffffff" THEN "#FFFFFF" ELSE IF c = "#fff" THEN "#FFF" ELSE c

\* the colours plot_driver_comparison and plot_track_dominance draw with
plot_colors(colors, d1, d2) ==
    LET c1 == IF d1 \in DOMAIN colors THEN colors[d1] ELSE "#00D2BE"
        c2 == IF d2 \in DOMAIN colors THEN colors[d2] ELSE "#E10600"
    IN  IF \/ c1 = c2
           \/ color_upper(c1) \in {"#FFFFFF", "#FFF"} /\ color_upper(c2) \in {"#FFFFFF", "#FFF"}
        THEN <<"#00D2BE", "#E10600">>
        ELSE <<c1, c2>>

InitColor ==
    /\ IdleDominance /\ IdlePct /\ IdleCompare /\ IdleAnalysis /\ IdleListing
    /\ IdleLookup /\ IdleRuns /\ IdleSchedule
    /\ laps = <<>>
    /\ mode \in {"cli_compare", "compare"}
    /\ request \in {[d1 |-> a, d2 |-> b, lap1 |-> None, lap2 |-> None] :
                        a \in ColorDrivers, b \in ColorDrivers}
    /\ provider \in [ColorTeams -> ProviderColors]
    /\ chart = NoOutput

PlotDriverComparison ==
    /\ mode = "cli_compare"
    /\ chart = NoOutput
    /\ chart' = [status |-> "ok",
                 pair |-> plot_colors(get_team_colors, request.d1, request.d2)]
    /\ UNCHANGED <<Base, listing, provider, LookupVars, RunVars, ScheduleVars>>

ApiColorPair ==
    /\ mode = "compare"
    /\ chart = NoOutput
    /\ chart' = [status |-> "ok",
                 pair |-> get_color_pair(color_drivers_list, request.d1, request.d2)]
    /\ UNCHANGED <<Base, listing, provider, LookupVars, RunVars, ScheduleVars>>

NextColor == PlotDriverComparison \/ ApiColorPair

SpecColor == InitColor /\ [][NextColor]_vars

\* the colour a driver resolves to: the provider's, or the team's entry of
\* the fallback table when the provider's is a white placeholder
ResolvedColor(d) ==
    LET c == provided(ColorTeam[d])
        table == [t \in {"Red Bull Racing", "Mercedes"} |->
                     IF t = "Red Bull Racing" THEN "#1E41FF" ELSE "#00D2BE"]
    IN  IF c \in {"#FFFFFF", "#FFF", "#ffffff"}
        THEN IF ColorTeam[d] \in DOMAIN table THEN table[ColorTeam[d]] ELSE "#FFFFFF"
        ELSE c

PairContract(pair) ==
    /\ pair[1] # pair[2]
    /\ pair = IF ResolvedColor(request.d1) = ResolvedColor(request.d2)
              THEN <<"#1E41FF", "#E10600">>
              ELSE <<ResolvedColor(request.d1), ResolvedColor(request.d2)>>

ApiPairContract == mode = "compare" /\ chart # NoOutput => PairContract(chart.pair)

CliPairContract == mode = "cli_compare" /\ chart # NoOutput => PairContract(chart.pair)

\* C22: a white provider colour is replaced by the team's fallback entry;
\* two drivers that then resolve to one colour get exactly the pair
\* ("#1E41FF", "#E10600"); the two emitted colours always differ.
C22_ColorPair == ApiPairContract /\ CliPairContract

(***************************************************************************)
(* Storing a session under its event name and finding it again:             *)
(* preprocess.sanitize_gp_name and app._find_gp_dir.  A name is the         *)
(* sequence of its characters.  Path.iterdir() yields the entries in an     *)
(* arbitrary order, so the first entry that matches is any entry that       *)
(* matches.                                                                 *)
(***************************************************************************)
MaxName == 2

Alphabet == {"a", "b", "B", " ", "."}

Letters == {"a", "b", "B"}

\* every name of at most MaxName characters
Queries == UNION {[1..n -> Alphabet] : n \in 1..MaxName}

\* the event names: the names with a letter in them
EventNames == {n \in Queries : \E i \in 1..Len(n) : n[i] \in Letters}

\* str.lower()
lower(s) == [i \in 1..Len(s) |-> IF s[i] = "B" THEN "b" ELSE s[i]]

\* .replace(" ", "_").replace("'", "").replace(".", "")
strip_name(s) ==
    LET kept == SelectSeq(s, LAMBDA c : c \notin {"'", "."})
    IN  [i \in 1..Len(kept) |-> IF kept[i] = " " THEN "_" ELSE kept[i]]

sanitize_keep_dots(name) == [i \in 1..Len(name) |-> IF name[i] = " " THEN "_" ELSE name[i]]

sanitize_gp_name(name) == strip_name(name)

\* needle in hay
contains(hay, needle) ==
    \E i \in 0..(Len(hay) - Len(needle)) : SubSeq(hay, i + 1, i + Len(needle)) = needle

find_gp_dir_any(yd, name) ==
    IF yd = None THEN {None}
    ELSE LET entries == Get(yd)
             gp_lower == strip_name(lower(name))
             dirs == {d \in DOMAIN entries : entries[d].is_dir}
             hit == {d \in dirs :
                        \/ contains(lower(d), gp_lower) \/ contains(gp_lower, lower(d))
                        \/ /\ entries[d].session # None
                           /\ contains(lower(Get(entries[d].session)), lower(name))}
         IN  IF hit # {} THEN {Some(d) : d \in hit} ELSE {None}

\* app._find_gp_dir: the directories it may return, None for no directory
find_gp_dir(yd, name) ==
    IF yd = None THEN {None}
    ELSE LET entries == Get(yd)
             gp_lower == strip_name(lower(name))
             dirs == {d \in DOMAIN entries : entries[d].is_dir}
             exact == {d \in dirs : lower(d) = gp_lower}
             fuzzy == {d \in dirs :
                          contains(lower(d), gp_lower) \/ contains(gp_lower, lower(d))}
             meta == {d \in dirs :
                          /\ entries[d].session # None
                          /\ contains(lower(Get(entries[d].session)), lower(name))}
         IN  IF exact # {} THEN {Some(d) : d \in exact}
             ELSE IF fuzzy # {} THEN {Some(d) : d \in fuzzy}
             ELSE IF meta # {} THEN {Some(d) : d \in meta}
             ELSE {None}

\* process_session on the event: the directory is made, and session.json
\* written with the event name unless the session was stored before; nothing
\* happens when a plain file has the directory's name
store_session(yd, name) ==
    LET entries == IF yd = None THEN <<>> ELSE Get(yd)
        d == sanitize_gp_name(name)
    IN  IF d \in DOMAIN entries /\ ~entries[d].is_dir THEN yd
        ELSE IF d \in DOMAIN entries /\ entries[d].session # None THEN yd
        ELSE Some([e \in DOMAIN entries \cup {d} |->
                      IF e = d THEN [is_dir |-> TRUE, session |-> Some(name)]
                      ELSE entries[e]])

\* an entry of the year directory: a directory with or without a session.json
\* (holding the event name), or a plain file
Entry(is_dir, session) == [is_dir |-> is_dir, session |-> session]

\* the event name a directory is found to hold when it is not its own
StrayEvent == <<"a", "B">>

\* the year directories: missing, or one entry of any name, next to none or
\* one of a few others
YearDirs ==
    {None} \cup
    {Some([e \in {d1} \cup others |->
              IF e = d1 THEN Entry(TRUE, s1)
              ELSE Entry(e # <<"a", "b">>, None)]) :
        d1 \in {sanitize_gp_name(n) : n \in EventNames},
        s1 \in {None, Some(StrayEvent)},
        others \in {{}, {<<"a">>}, {<<"a", "b">>}, {<<"B", "_">>}, {<<"a">>, <<"b", "a">>}}}

\* the event names of one year differ in more than case
DistinctEvents(yd, name) ==
    yd # None =>
        \A d \in DOMAIN Get(yd) :
            lower(d) = lower(sanitize_gp_name(name)) => d = sanitize_gp_name(name)

InitLookup ==
    /\ IdleDominance /\ IdlePct /\ IdleCompare /\ IdleAnalysis /\ IdleListing /\ IdleColor
    /\ IdleRuns /\ IdleSchedule
    /\ laps = <<>>
    /\ request = BestLapRequest
    /\ mode \in {"lookup", "store"}
    /\ year_dir \in YearDirs
    /\ gp \in IF mode = "store" THEN EventNames ELSE Queries
    /\ mode = "store" => DistinctEvents(year_dir, gp)
    /\ gp_dir = NoOutput

StoreSession ==
    /\ mode = "store"
    /\ gp_dir = NoOutput
    /\ year_dir' = store_session(year_dir, gp)
    /\ UNCHANGED <<Base, listing, ColorVars, gp, gp_dir, RunVars, ScheduleVars>>

FindGpDir ==
    /\ mode \in {"lookup", "store"}
    /\ gp_dir = NoOutput
    /\ \E d \in find_gp_dir(year_dir, gp) : gp_dir' = [status |-> "ok", dir |-> d]
    /\ UNCHANGED <<Base, listing, ColorVars, year_dir, gp, RunVars, ScheduleVars>>

NextLookup == StoreSession \/ FindGpDir

SpecLookup == InitLookup /\ [][NextLookup]_vars

Found == gp_dir # NoOutput

\* the directories of the year directory
Directories == IF year_dir = None THEN {} ELSE {d \in DOMAIN Get(year_dir) : Get(year_dir)[d].is_dir}

\* the search name as _find_gp_dir normalises it
SearchName == strip_name(lower(gp))

ExactMatches == {d \in Directories : lower(d) = SearchName}

SubstringMatches ==
    {d \in Directories : contains(lower(d), SearchName) \/ contains(SearchName, lower(d))}

MetadataMatches ==
    {d \in Directories :
        /\ Get(year_dir)[d].session # None
        /\ contains(lower(Get(Get(year_dir)[d].session)), lower(gp))}

\* C23: a directory whose name is the normalised search name is returned
\* whatever else matches by substring or by stored event name and whatever
\* the iteration order; failing that a substring match is returned; a match
\* on the stored event name only when neither exists; and no directory when
\* the year directory is missing or nothing matches.
C23_LookupOrder ==
    Found /\ mode = "lookup" =>
        /\ ExactMatches # {} => gp_dir.dir \in {Some(d) : d \in ExactMatches}
        /\ ExactMatches = {} /\ SubstringMatches # {} =>
              gp_dir.dir \in {Some(d) : d \in SubstringMatches}
        /\ ExactMatches = {} /\ SubstringMatches = {} /\ MetadataMatches # {} =>
              gp_dir.dir \in {Some(d) : d \in MetadataMatches}
        /\ ExactMatches = {} /\ SubstringMatches = {} /\ MetadataMatches = {} =>
              gp_dir.dir = None
        /\ year_dir = None => gp_dir.dir = None

\* the directory named by the search is returned although another
\* directory contains the name and holds a session whose event name matches
C23_Witness ==
    /\ Found /\ mode = "lookup"
    /\ gp = <<"a">>
    /\ gp_dir.dir = Some(<<"a">>)
    /\ <<"b", "a">> \in SubstringMatches
    /\ MetadataMatches # {}
    /\ MetadataMatches \cap ExactMatches = {}

\* the session stored for the event is there
Stored ==
    /\ year_dir # None
    /\ sanitize_gp_name(gp) \in Directories
    /\ Get(year_dir)[sanitize_gp_name(gp)].session = Some(gp)

MaxArray == 3

\* the telemetry document of a driver's lap with arrays of the given lengths
Document(d, n, lx, ly, ls) ==
    [driver |-> d,
     lapNumber |-> n,
     distance |-> [i \in 1..lx |-> 600 * (i - 1)],
     x |-> [i \in 1..lx |-> 10 * TrackX(60 * (i - 1))],
     y |-> [i \in 1..ly |-> 10 * TrackY(60 * (i - 1))],
     speed |-> [i \in 1..ls |-> IF d = "VER" THEN 1000 + 500 * i ELSE 2500 - 500 * i]]

Documents ==
    {(<<"VER", BestLapNum["VER"]>> :> Document("VER", BestLapNum["VER"], lx1, ly1, ls1)) @@
     (<<"HAM", BestLapNum["HAM"]>> :> Document("HAM", BestLapNum["HAM"], lx2, ly2, ls2)) :
        lx1 \in 0..MaxArray, ly1 \in 0..MaxArray, ls1 \in 0..MaxArray,
        lx2 \in 0..MaxArray, ly2 \in 0..MaxArray, ls2 \in 0..MaxArray}

InitDocuments ==
    /\ telemetry = [d \in Drivers |-> SelectTrace]
    /\ resolution = 2
    /\ storedExtras = NoExtras
    /\ mode = "served"
    /\ laps = DomLaps
    /\ request = BestLapRequest
    /\ session_json = Some([drivers |-> session_drivers(accurate_laps(DomLaps))])
    /\ laps_json = Some(laps_list(accurate_laps(DomLaps)))
    /\ tel_dir \in Documents
    /\ cli_out = NoOutput
    /\ api_calls = <<>>
    /\ IdlePct /\ IdleCompare /\ IdleAnalysis /\ IdleAux

NextDocuments == ApiTrackDominance

SpecDocuments == InitDocuments /\ [][NextDocuments]_vars

\* the two documents a best-lap request reads
Doc1 == tel_dir[<<"VER", BestLapNum["VER"]>>]
Doc2 == tel_dir[<<"HAM", BestLapNum["HAM"]>>]

StoredBestLapNum(driver) ==
    LET drivers == Get(session_json).drivers
    IN  drivers[CHOOSE i \in 1..Len(drivers) : drivers[i].driver = upper(driver)].bestLapNum

\* C25: with no lap numbers given, the lap that /api/compare reports for a
\* driver and the lap of the telemetry that /api/track-dominance chooses are
\* both the driver's stored bestLapNum, also when several laps share the
\* least lap time after rounding to 3 decimals.
C25_SameLap ==
    /\ Answered /\ request.lap1 = None => Answer.lap1_num = StoredBestLapNum(request.d1)
    /\ Answered /\ request.lap2 = None => Answer.lap2_num = StoredBestLapNum(request.d2)
    /\ Served /\ request.lap1 = None => Frame.lap1_num = StoredBestLapNum(request.d1)
    /\ Served /\ request.lap2 = None => Frame.lap2_num = StoredBestLapNum(request.d2)

\* the session was stored when the track-dominance request was made
ServedStored == api_calls # <<>> /\ api_calls[1].session # None

NoTelemetry(which) ==
    /\ api_calls[1].response.status = 404
    /\ api_calls[1].response.error = which

ListedBest(driver, lap) ==
    \E i \in 1..Len(Get(session_json).drivers) :
        /\ Get(session_json).drivers[i].driver = upper(driver)
        /\ Some(Get(session_json).drivers[i].bestLapNum) = lap

\* C26: a track-dominance request that names a lap for a driver reports
\* exactly that lap or answers 404 for missing telemetry, never another lap;
\* a named lap that is not the driver's best lap always gives the 404.
C26_ExplicitTelemetry ==
    ServedStored =>
        /\ request.lap1 # None =>
              \/ Served /\ Some(Frame.lap1_num) = request.lap1
              \/ NoTelemetry("No telemetry data for d1")
              \/ NoTelemetry("No telemetry data for d2")
        /\ request.lap2 # None =>
              \/ Served /\ Some(Frame.lap2_num) = request.lap2
              \/ NoTelemetry("No telemetry data for d1")
              \/ NoTelemetry("No telemetry data for d2")
        /\ request.lap1 # None /\ ~ListedBest(request.d1, request.lap1) =>
              NoTelemetry("No telemetry data for d1")
        /\ request.lap2 # None /\ ~ListedBest(request.d2, request.lap2) =>
              \/ NoTelemetry("No telemetry data for d1")
              \/ NoTelemetry("No telemetry data for d2")

\* lap 5 of VER is asked for while lap 6 is VER's best lap and has its
\* telemetry stored: the answer is the 404
C26_Witness ==
    /\ ServedStored
    /\ request.d1 = "VER"
    /\ request.lap1 = Some(5)
    /\ ListedBest("VER", Some(6))
    /\ <<"VER", 6>> \in DOMAIN tel_dir
    /\ NoTelemetry("No telemetry data for d1")

(***************************************************************************)
(* process_session step by step, run after run, next to the endpoints that  *)
(* read its files.  A run loads the session, writes session.json, then      *)
(* laps.json, then the telemetry files; it may be killed between any two    *)
(* writes, and fetching the telemetry of a lap may fail, which leaves that  *)
(* lap without a file.  /api/load-session answers from session.json alone,  *)
(* and the client compares once it is told the session is ready.            *)
(***************************************************************************)
MaxRuns == 3

RunFrame == <<telemetry, resolution, storedExtras, mode, request, laps, cli_out, api_calls,
              dominance, pct_out, cmp_out, analysis, listing, ColorVars, LookupVars,
              ScheduleVars>>

\* the run ends before it writes anything: no accurate lap, or a driver
\* without any lap time
Unwritable(ls) ==
    LET accurate == accurate_laps(ls)
        order == unique([i \in 1..Len(accurate) |-> accurate[i].Driver])
    IN  \/ accurate = <<>>
        \/ \E i \in 1..Len(order) : idxmin(Rows(accurate, order[i])) = None

InitRuns ==
    /\ telemetry = [d \in Drivers |-> SelectTrace]
    /\ resolution = 2
    /\ storedExtras = NoExtras
    /\ mode = "compare"
    /\ laps \in SelectLaps
    /\ request = BestLapRequest
    /\ session_json = None
    /\ laps_json = None
    /\ tel_dir = <<>>
    /\ cli_out = NoOutput
    /\ api_calls = <<>>
    /\ IdlePct /\ IdleCompare /\ IdleAnalysis /\ IdleListing /\ IdleColor /\ IdleLookup
    /\ IdleRuns /\ IdleSchedule

StartRun ==
    /\ pc \in {"idle", "done", "skipped", "killed"}
    /\ runs < MaxRuns
    /\ runs' = runs + 1
    /\ pc' = IF session_json # None /\ laps_json # None THEN "skipped"
             ELSE IF Unwritable(laps) THEN "done"
             ELSE "loaded"
    /\ UNCHANGED <<RunFrame, Store, compare_calls, load_calls>>

WriteSessionJson ==
    /\ pc = "loaded"
    /\ session_json' = Some([drivers |-> session_drivers(accurate_laps(laps))])
    /\ pc' = "session"
    /\ UNCHANGED <<RunFrame, laps_json, tel_dir, compare_calls, runs, load_calls>>

WriteLapsJson ==
    /\ pc = "session"
    /\ laps_json' = Some(laps_list(accurate_laps(laps)))
    /\ pc' = "laps"
    /\ UNCHANGED <<RunFrame, session_json, tel_dir, compare_calls, runs, load_calls>>

WriteTelemetry ==
    /\ pc = "laps"
    /\ \E failed \in SUBSET Drivers :
          tel_dir' = save_telemetry(tel_dir, Get(session_json).drivers,
                                    [d \in Drivers |-> IF d \in failed THEN <<>>
                                                       ELSE telemetry[d]],
                                    resolution)
    /\ pc' = "done"
    /\ UNCHANGED <<RunFrame, session_json, laps_json, compare_calls, runs, load_calls>>

Interrupt ==
    /\ pc \in {"loaded", "session", "laps"}
    /\ pc' = "killed"
    /\ UNCHANGED <<RunFrame, Store, compare_calls, runs, load_calls>>

ApiLoadSession ==
    /\ load_calls = <<>>
    /\ load_calls' = <<IF session_json # None THEN [status |-> "ready"]
                       ELSE [status |-> "error"]>>
    /\ UNCHANGED <<RunFrame, Store, compare_calls, pc, runs>>

ApiCompareReady ==
    /\ load_calls # <<>>
    /\ load_calls[1].status = "ready"
    /\ ApiCompare

NextRuns ==
    \/ StartRun
    \/ WriteSessionJson
    \/ WriteLapsJson
    \/ WriteTelemetry
    \/ Interrupt
    \/ ApiLoadSession
    \/ ApiCompareReady

SpecRuns == InitRuns /\ [][NextRuns]_vars

ListedDriver(driver) ==
    /\ session_json # None
    /\ \E i \in 1..Len(Get(session_json).drivers) :
          Get(session_json).drivers[i].driver = upper(driver)

\* C27: once the session is reported ready, a comparison of two drivers
\* listed in session.json does not fail with "Data not found", in any state
\* reached while process_session runs or after it was killed between two
\* writes.
C27_ReadyComparable ==
    compare_calls # <<>> /\ ListedDriver(request.d1) /\ ListedDriver(request.d2) =>
        ~(Answer.status = 404 /\ Answer.error = "Data not found")

\* C28: once a run has found session.json and laps.json in place and
\* returned, every driver listed in session.json has the telemetry file of
\* its bestLapNum.
C28_TelemetryComplete ==
    pc = "skipped" =>
        \A i \in 1..Len(Get(session_json).drivers) :
            <<Get(session_json).drivers[i].driver, Get(session_json).drivers[i].bestLapNum>>
                \in DOMAIN tel_dir

\* a run that finds both files in place changes no file
SkipChangesNothing ==
    [][pc' = "skipped" => UNCHANGED Store]_vars

(***************************************************************************)
(* preprocess.process_schedule: the stored calendar, updated year by year.  *)
(* The file is None when missing; a file that does not parse is read as an  *)
(* empty calendar.  A fetch gives the events of a year, or fails (None).    *)
(***************************************************************************)
Years == {2023, 2024, 2025}

Event(rn, name) == [RoundNumber |-> rn, EventName |-> name]

\* a calendar with a testing event (round 0), one without, and an empty one
Fetched ==
    {<<Event(0, "Testing"), Event(1, "Bahrain"), Event(2, "Jeddah")>>,
     <<Event(1, "Melbourne")>>,
     <<>>}

OldRaces == <<[round |-> 1, name |-> "Sakhir"]>>

ScheduleFiles ==
    {None, Some([valid |-> FALSE, years |-> <<>>])} \cup
    {Some([valid |-> TRUE, years |-> [y \in held |-> OldRaces]]) : held \in SUBSET Years}

YearLists == {<<>>, <<2024>>, <<2025, 2024>>, <<2023, 2024, 2025>>}

\* json.loads(out.read_text()), {} for a missing or unreadable file
read_schedule(file) ==
    IF file = None THEN <<>>
    ELSE IF ~Get(file).valid THEN <<>>
    ELSE Get(file).years

\* the races of a fetched calendar: every event but those of round 0
races_of(sched) ==
    LET kept == SelectSeq(sched, LAMBDA row : row.RoundNumber # 0)
    IN  [i \in 1..Len(kept) |-> [round |-> kept[i].RoundNumber, name |-> kept[i].EventName]]

RECURSIVE update_schedule(_, _, _)
update_schedule(schedule, years, fetch) ==
    IF years = <<>> THEN schedule
    ELSE LET year == Head(years)
             next == IF fetch[year] = None THEN schedule
                     ELSE [y \in DOMAIN schedule \cup {year} |->
                              IF y = year THEN races_of(Get(fetch[year])) ELSE schedule[y]]
         IN  update_schedule(next, Tail(years), fetch)

process_schedule_fresh(file, years, fetch) == update_schedule(<<>>, years, fetch)

process_schedule(file, years, fetch) == update_schedule(read_schedule(file), years, fetch)

InitSchedule ==
    /\ IdleDominance /\ IdlePct /\ IdleCompare /\ IdleAnalysis /\ IdleListing /\ IdleColor
    /\ IdleLookup /\ IdleRuns
    /\ laps = <<>>
    /\ request = BestLapRequest
    /\ mode = "schedule"
    /\ schedule_json \in ScheduleFiles
    /\ sched_in \in {[years |-> l, fetch |-> f] :
                        l \in YearLists,
                        f \in [Years -> {None} \cup {Some(c) : c \in Fetched}]}
    /\ sched_out = NoOutput

ProcessSchedule ==
    /\ mode = "schedule"
    /\ sched_out = NoOutput
    /\ LET schedule == process_schedule(schedule_json, sched_in.years, sched_in.fetch)
       IN  /\ schedule_json' = Some([valid |-> TRUE, years |-> schedule])
           /\ sched_out' = [status |-> "ok", schedule |-> schedule]
    /\ UNCHANGED <<Base, listing, ColorVars, LookupVars, RunVars, sched_in>>

NextSchedule == ProcessSchedule

SpecSchedule == InitSchedule /\ [][NextSchedule]_vars

Listed(y) == \E i \in 1..Len(sched_in.years) : sched_in.years[i] = y

\* the entry of a year in a schedule file: None when the year has none
EntryOf(file, y) ==
    IF file = None THEN None
    ELSE IF ~Get(file).valid THEN None
    ELSE IF y \in DOMAIN Get(file).years THEN Some(Get(file).years[y])
    ELSE None

\* the races a fetched calendar should be stored as
WithoutRoundZero(sched) ==
    LET idx == {i \in 1..Len(sched) : sched[i].RoundNumber # 0}
        nth(k) == CHOOSE i \in idx : Cardinality({j \in idx : j <= i}) = k
    IN  [k \in 1..Cardinality(idx) |->
            [round |-> sched[nth(k)].RoundNumber, name |-> sched[nth(k)].EventName]]

\* C30: a run of process_schedule leaves the entry of every year outside
\* its list unchanged, replaces the entry of every listed year whose fetch
\* succeeded by the fetched races without the round-0 events, and leaves
\* the entry of a listed year whose fetch failed as it was, or absent.
C30_Incremental ==
    [][sched_out' # sched_out =>
          \A y \in Years :
              EntryOf(schedule_json', y) =
                  IF Listed(y) /\ sched_in.fetch[y] # None
                  THEN Some(WithoutRoundZero(Get(sched_in.fetch[y])))
                  ELSE EntryOf(schedule_json, y)]_vars

\* after a run over 2025 and 2024: 2023 keeps its old entry, 2024 holds the
\* fetched races without the testing event, 2025, whose fetch failed, has
\* no entry
C30_Witness ==
    /\ sched_out # NoOutput
    /\ sched_in.years = <<2025, 2024>>
    /\ sched_in.fetch[2025] = None
    /\ EntryOf(schedule_json, 2023) = Some(OldRaces)
    /\ EntryOf(schedule_json, 2024) =
          Some(<<[round |-> 1, name |-> "Bahrain"], [round |-> 2, name |-> "Jeddah"]>>)
    /\ EntryOf(schedule_json, 2025) = None

====
